---- MODULE Spec2Model ----
(***************************************************************************)
(* Credit ledger, redeem codes and payment orders of the OpenList credits  *)
(* add-on (internal/op, internal/db, internal/model).                      *)
(*                                                                         *)
(* Every request runs on its own worker.  A worker executes one op         *)
(* function at a time; each call the function makes into the db package is *)
(* one atomic step (one SQL statement), and the local computation between  *)
(* two db calls belongs to the step of the db call before it.  A db call   *)
(* may fail with a storage error.  There is no transaction and no lock in  *)
(* the op package, so steps of different workers interleave freely.        *)
(***************************************************************************)
EXTENDS Integers, Sequences, FiniteSets, TLC

\* ---------------------------------------------------------------- bounds
Workers  == {"w1", "w2"}
UserIDs  == {1, 2}
Amounts  == {40, 60}
MaxCalls == 3            \* calls begun in one run, all workers together
MaxFaults == 1           \* storage errors injected in one run
Codes    == {"OLA", "OLB", "OLC"}
CodesAsked == Codes \cup {"OLX"}   \* OLX: a code no row has
OrderNos == {"OL1", "OL2"}
MaxTime  == 31           \* the clock stops here
TickSteps == {30, 31}    \* minutes the clock advances by
RulePaths == { <<"/", "a">>, <<"/", "a", "/", "b">>, <<"/", "a", "_", "b">> }
AskedPaths == RulePaths \cup { <<"/", "a", "/", "b", "/", "c">>, <<"/", "x">> }
RuleCredits == {0, 5}
RegistrationIDs == {1, 2}
Tokens   == {"T1", "T2", "TX"}     \* TX: a token no row has
Emails   == {"carol@x"}
CodeValues == {"111111", "222222"}

VARIABLES
    now,                 \* time.Now(), in minutes
    userCredits,         \* table x_user_credits, keyed by user_id
    creditTransactions,  \* table x_credit_transactions, in creation order
    redeemCodes,         \* table x_redeem_codes, keyed by code
    redeemCodeUsages,    \* table x_redeem_code_usages, in creation order
    paymentOrders,       \* table x_payment_orders, keyed by order_no
    pc,                  \* position of each worker inside its op function
    local,               \* local variables of each worker's call
    ret,                 \* what each worker's last call returned
    calls,               \* number of calls begun so far
    faults,              \* number of storage errors injected so far
    fileCreditsConfigs,  \* table x_file_credits_configs, keyed by path
    userRegistrations,   \* table x_user_registrations, keyed by id
    verificationCodes,   \* table x_verification_codes, in creation order
    users                \* table x_users: the user names, in creation order

vars == <<now, userCredits, creditTransactions, redeemCodes, redeemCodeUsages,
          paymentOrders, pc, local, ret, calls, faults,
          fileCreditsConfigs, userRegistrations, verificationCodes, users>>

\* The tables the ledger, redemption and payment order operations never write.
otherTables == <<fileCreditsConfigs, userRegistrations, verificationCodes, users>>

\* ------------------------------------------------------------ data model
\* model.UserCredits; exists = FALSE stands for "no row for this user_id".
NoAccount == [exists |-> FALSE, Balance |-> 0, TotalEarn |-> 0, TotalSpent |-> 0]

\* CreateUserCredits builds the row with Balance 0 (the other counters default 0).
NewAccount == [exists |-> TRUE, Balance |-> 0, TotalEarn |-> 0, TotalSpent |-> 0]

\* The account that exists initially, as AddCredits(1, 100, "admin", "") on a
\* new user leaves it.
InitAccount == [exists |-> TRUE, Balance |-> 100, TotalEarn |-> 100, TotalSpent |-> 0]

\* model.CreditTransaction, the fields the op package sets.
CreditTransaction(u, amt, typ, source, sourceID, bal) ==
    [UserID |-> u, Amount |-> amt, Type |-> typ, Source |-> source,
     SourceID |-> sourceID, Balance |-> bal]

\* model.RedeemCode; ExpiresAt is a pointer: hasExpiry = FALSE stands for nil.
RedeemCodeRow(credits, maxUses, hasExpiry, expiresAt) ==
    [exists |-> TRUE, Credits |-> credits, MaxUses |-> maxUses, UsedCount |-> 0,
     Enabled |-> TRUE, hasExpiry |-> hasExpiry, ExpiresAt |-> expiresAt]

NoRedeemCode ==
    [RedeemCodeRow(0, 0, FALSE, 0) EXCEPT !.exists = FALSE, !.Enabled = FALSE]

\* model.PaymentOrder; exists = FALSE stands for "no row for this order_no",
\* paid = FALSE for a nil PaidAt.
NoOrder == [exists |-> FALSE, UserID |-> 0, Credits |-> 0, Status |-> "",
            ExpiresAt |-> 0, paid |-> FALSE, PaidAt |-> 0, PaymentData |-> ""]

\* ExpiresAt: time.Now().Add(30 * time.Minute) in CreatePaymentOrder
OrderTTL == 30

\* The order CreatePaymentOrder builds.
NewOrder(u, credits, t) ==
    [exists |-> TRUE, UserID |-> u, Credits |-> credits, Status |-> "pending",
     ExpiresAt |-> t + OrderTTL, paid |-> FALSE, PaidAt |-> 0, PaymentData |-> ""]

\* The body of a payment notification, the parameters the program looks at;
\* provider "" stands for "the call is not made by PaymentNotification".
NoNotification == [provider |-> "", out_trade_no |-> "", sign |-> "",
                   trade_status |-> ""]

\* model.FileCreditsConfig; a path is the sequence of its characters;
\* exists = FALSE stands for "no row with this path".
NoConfig == [exists |-> FALSE, Path |-> <<>>, IsFolder |-> FALSE, Credits |-> 0,
             Inheritable |-> FALSE, Enabled |-> FALSE]

FileCreditsConfig(path, credits, isFolder, inheritable, enabled) ==
    [exists |-> TRUE, Path |-> path, IsFolder |-> isFolder, Credits |-> credits,
     Inheritable |-> inheritable, Enabled |-> enabled]

\* model.UserRegistration; Status 0: to verify, 1: verified, 2: registered,
\* -1: rejected; exists = FALSE stands for "no row with this id".
NoRegistration == [exists |-> FALSE, ID |-> 0, Email |-> "", Username |-> "",
                   Status |-> 0, Token |-> "", ExpiresAt |-> 0]

\* ExpiresAt: time.Now().Add(24 * time.Hour) in CreateUserRegistration, in minutes
RegistrationTTL == 1440

\* The registration CreateUserRegistration builds.
NewRegistration(id, email, username, token, t) ==
    [exists |-> TRUE, ID |-> id, Email |-> email, Username |-> username,
     Status |-> 0, Token |-> token, ExpiresAt |-> t + RegistrationTTL]

\* ExpiresAt: time.Now().Add(10 * time.Minute) in CreateVerificationCode
CodeTTL == 10

\* The verification code CreateVerificationCode builds.
NewVerificationCode(email, code, codeType, t) ==
    [Email |-> email, Code |-> code, Type |-> codeType, Used |-> FALSE,
     ExpiresAt |-> t + CodeTTL]

\* db.GetVerificationCode found no row.
NoVerificationCode ==
    [Email |-> "", Code |-> "", Type |-> "", Used |-> FALSE, ExpiresAt |-> 0]

NoLocal == [op |-> "none", kind |-> "none", userID |-> 0, amount |-> 0,
            reason |-> "", sourceID |-> "", credits |-> NoAccount,
            code |-> "", redeemCode |-> NoRedeemCode,
            orderNo |-> "", order |-> NoOrder, paidAt |-> 0,
            notification |-> NoNotification,
            path |-> <<>>, config |-> NoConfig,
            token |-> "", registrationID |-> 0, registration |-> NoRegistration,
            email |-> "", codeType |-> "", verificationCodeID |-> 0,
            verificationCode |-> NoVerificationCode,
            allowed |-> FALSE, required |-> 0]

\* ------------------------------------------------------------- helpers
RECURSIVE SumAmounts(_)
SumAmounts(s) == IF s = <<>> THEN 0 ELSE Head(s).Amount + SumAmounts(Tail(s))

TxOf(u) == SelectSeq(creditTransactions, LAMBDA t : t.UserID = u)

\* A call returns: the worker is idle again, its locals are dropped, and what
\* the call was about stays readable next to its result.
Return(w, r) ==
    /\ pc' = [pc EXCEPT ![w] = "idle"]
    /\ ret' = [ret EXCEPT ![w] = r]
    /\ local' = [local EXCEPT ![w] =
            [NoLocal EXCEPT !.op = local[w].op, !.userID = local[w].userID,
                            !.amount = local[w].amount, !.code = local[w].code,
                            !.orderNo = local[w].orderNo,
                            !.paidAt = local[w].paidAt,
                            !.path = local[w].path, !.config = local[w].config,
                            !.token = local[w].token,
                            !.registrationID = local[w].registrationID,
                            !.email = local[w].email,
                            !.verificationCodeID = local[w].verificationCodeID,
                            !.codeType = local[w].codeType]]

Goto(w, p, l) ==
    /\ pc' = [pc EXCEPT ![w] = p]
    /\ local' = [local EXCEPT ![w] = l]
    /\ UNCHANGED ret

\* Calls made one after the other: worker w takes a step only while no other
\* call is in flight.
OthersIdle(w) == \A v \in Workers \ {w} : pc[v] = "idle"

\* A db call fails: the op function wraps the error and returns it.
StorageError(w, r) ==
    /\ faults < MaxFaults
    /\ faults' = faults + 1
    /\ Return(w, r)

\* Every caller hands the error of the ledger on as it is.
LedgerErrorUnwrapped(w) == "storage"

\* An error of AddCredits / DeductCredits as the caller returns it: RedeemCode
\* and CompletePaymentOrder wrap it, ProcessFileDownload hands it on.
LedgerError(w) ==
    IF local[w].op \in {"RedeemCode", "CompletePaymentOrder"}
    THEN "add_credits_failed" ELSE "storage"

\* ------------------------------------------------------------------ Init
\* The database some way into the program's life: user 1 holds an account
\* that one AddCredits of 100 has filled, user 2 has no account yet; code OLA
\* is single-use and never expires, code OLB has two uses and expires at
\* minute 30, code OLC is disabled; order OL1 was created for user 1 at minute 0 and is pending.
\* No pricing rule is set. Registration 1 was created 30 minutes less than a
\* day ago and is to be verified; registration 2 is a registered one.
\* One verification code was sent at minute 0.
Init ==
    /\ now = 0
    /\ userCredits = [u \in UserIDs |->
          IF u = 1 THEN InitAccount ELSE NoAccount]
    /\ creditTransactions =
          << CreditTransaction(1, InitAccount.Balance, "earn", "admin", "",
                               InitAccount.Balance) >>
    /\ redeemCodes = [c \in Codes |->
          CASE c = "OLA" -> RedeemCodeRow(40, 1, FALSE, 0)
            [] c = "OLB" -> RedeemCodeRow(60, 2, TRUE, 30)
            [] c = "OLC" -> [RedeemCodeRow(40, 1, FALSE, 0) EXCEPT !.Enabled = FALSE]]
    /\ redeemCodeUsages = <<>>
    /\ paymentOrders = [o \in OrderNos |->
          IF o = "OL1" THEN NewOrder(1, 40, 0) ELSE NoOrder]
    /\ pc = [w \in Workers |-> "idle"]
    /\ local = [w \in Workers |-> NoLocal]
    /\ ret = [w \in Workers |-> "none"]
    /\ calls = 0
    /\ faults = 0
    /\ fileCreditsConfigs = [p \in RulePaths |-> NoConfig]
    /\ userRegistrations = [r \in RegistrationIDs |->
          IF r = 1
          THEN NewRegistration(1, "carol@x", "carol", "T1", 30 - RegistrationTTL)
          ELSE [NewRegistration(2, "dave@x", "dave", "T2", 30 - RegistrationTTL)
                    EXCEPT !.Status = 2]]
    /\ verificationCodes = << NewVerificationCode("carol@x", "111111", "register", 0) >>
    /\ users = <<"alice", "bob">>

\* ------------------------------------------------------- Ledger: entry
Begin(w, l, p) ==
    /\ pc[w] = "idle"
    /\ calls < MaxCalls
    /\ calls' = calls + 1
    /\ pc' = [pc EXCEPT ![w] = p]
    /\ local' = [local EXCEPT ![w] = l]
    /\ ret' = [ret EXCEPT ![w] = "running"]

\* AddCredits(userID, amount, reason, orderID)
BeginAddCredits(w) ==
    \E u \in UserIDs, a \in Amounts :
        /\ Begin(w, [NoLocal EXCEPT !.op = "AddCredits", !.kind = "add",
                       !.userID = u, !.amount = a, !.reason = "admin"],
                 "GetUserCredits")
        /\ UNCHANGED otherTables
        /\ UNCHANGED <<now, userCredits, creditTransactions, redeemCodes,
                       redeemCodeUsages, paymentOrders, faults>>

\* DeductCredits(userID, amount, reason, fileID)
BeginDeductCredits(w) ==
    \E u \in UserIDs, a \in Amounts :
        /\ Begin(w, [NoLocal EXCEPT !.op = "DeductCredits", !.kind = "deduct",
                       !.userID = u, !.amount = a, !.sourceID = "/a"],
                 "GetUserCredits")
        /\ UNCHANGED otherTables
        /\ UNCHANGED <<now, userCredits, creditTransactions, redeemCodes,
                       redeemCodeUsages, paymentOrders, faults>>

\* GetUserCredits(userID) called on its own, as handles.GetUserCredits does.
BeginGetUserCredits(w) ==
    \E u \in UserIDs :
        /\ Begin(w, [NoLocal EXCEPT !.op = "GetUserCredits", !.kind = "get",
                       !.userID = u],
                 "GetUserCredits")
        /\ UNCHANGED otherTables
        /\ UNCHANGED <<now, userCredits, creditTransactions, redeemCodes,
                       redeemCodeUsages, paymentOrders, faults>>

\* ------------------------------------------------ Download: the result
\* A path as the string the program holds.
RECURSIVE PathName(_)
PathName(path) == IF path = <<>> THEN "" ELSE Head(path) \o PathName(Tail(path))

DownloadOps == {"CheckFileDownloadPermission", "ProcessFileDownload"}

\* CheckFileDownloadPermission returns (allowed, required, nil): to its
\* caller, or to ProcessFileDownload, which refuses when not allowed, calls
\* DeductCredits(userID, required, reason, filePath) when required > 0 and
\* returns nil otherwise.
ReturnPermission(w, allowed, required) ==
    IF local[w].op = "CheckFileDownloadPermission"
    THEN /\ pc' = [pc EXCEPT ![w] = "idle"]
         /\ ret' = [ret EXCEPT ![w] = "ok"]
         /\ local' = [local EXCEPT ![w] =
                 [NoLocal EXCEPT !.op = local[w].op, !.userID = local[w].userID,
                                 !.path = local[w].path, !.config = local[w].config,
                                 !.allowed = allowed, !.required = required]]
    ELSE IF ~allowed
    THEN Return(w, "insufficient")
    ELSE IF required > 0
    THEN Goto(w, "GetUserCredits",
              [local[w] EXCEPT !.kind = "deduct", !.amount = required,
                               !.sourceID = PathName(local[w].path),
                               !.credits = NoAccount])
    ELSE Return(w, "ok")

\* ---------------------------------------------- Ledger: GetUserCredits
\* The balance check of DeductCredits: TRUE when the call goes on.
EnoughBalance(credits, amount) == ~(credits.Balance < amount)

\* What AddCredits / DeductCredits do with the row GetUserCredits returned.
GotUserCredits(w, c) ==
    IF local[w].kind = "check"
    THEN ReturnPermission(w, ~(c.Balance < local[w].amount), local[w].amount)
    ELSE
    IF local[w].kind = "get"
    THEN /\ pc' = [pc EXCEPT ![w] = "idle"]
         /\ ret' = [ret EXCEPT ![w] = "ok"]
         /\ local' = [local EXCEPT ![w] =
                 [NoLocal EXCEPT !.op = local[w].op, !.userID = local[w].userID,
                                 !.credits = c]]
    ELSE
    IF local[w].kind = "deduct"
    THEN IF EnoughBalance(c, local[w].amount)
         THEN Goto(w, "DeductCredits_update", [local[w] EXCEPT !.credits = c])
         ELSE Return(w, "insufficient")
    ELSE Goto(w, "AddCredits_update", [local[w] EXCEPT !.credits = c])

\* db.GetUserCreditsByUserID in GetUserCredits
GetUserCredits(w) ==
    /\ pc[w] = "GetUserCredits"
    /\ \/ /\ userCredits[local[w].userID].exists
          /\ GotUserCredits(w, userCredits[local[w].userID])
          /\ UNCHANGED faults
       \/ /\ ~userCredits[local[w].userID].exists
          /\ Goto(w, "CreateUserCredits_check", local[w])
          /\ UNCHANGED faults
       \/ StorageError(w, LedgerError(w))
    /\ UNCHANGED otherTables
    /\ UNCHANGED <<now, userCredits, creditTransactions, redeemCodes,
                   redeemCodeUsages, paymentOrders, calls>>

\* db.GetUserCreditsByUserID in CreateUserCredits: any error goes on to create.
CreateUserCreditsCheck(w) ==
    /\ pc[w] = "CreateUserCredits_check"
    /\ \/ /\ userCredits[local[w].userID].exists
          /\ GotUserCredits(w, userCredits[local[w].userID])
          /\ UNCHANGED faults
       \/ /\ ~userCredits[local[w].userID].exists
          /\ Goto(w, "CreateUserCredits_create", local[w])
          /\ UNCHANGED faults
       \/ /\ faults < MaxFaults
          /\ faults' = faults + 1
          /\ Goto(w, "CreateUserCredits_create", local[w])
    /\ UNCHANGED otherTables
    /\ UNCHANGED <<now, userCredits, creditTransactions, redeemCodes,
                   redeemCodeUsages, paymentOrders, calls>>

\* db.CreateUserCredits: user_id carries a unique index, so the insert fails
\* when another worker has created the row in between.
CreateUserCreditsCreate(w) ==
    /\ pc[w] = "CreateUserCredits_create"
    /\ \/ /\ ~userCredits[local[w].userID].exists
          /\ userCredits' = [userCredits EXCEPT ![local[w].userID] = NewAccount]
          /\ GotUserCredits(w, NewAccount)
          /\ UNCHANGED faults
       \/ /\ userCredits[local[w].userID].exists
          /\ Return(w, LedgerError(w))
          /\ UNCHANGED <<userCredits, faults>>
       \/ /\ StorageError(w, LedgerError(w))
          /\ UNCHANGED userCredits
    /\ UNCHANGED otherTables
    /\ UNCHANGED <<now, creditTransactions, redeemCodes, redeemCodeUsages,
                   paymentOrders, calls>>

\* ------------------------------------------------- Ledger: AddCredits
\* credits.Balance += amount; credits.TotalEarn += amount
Credited(credits, amount) ==
    [credits EXCEPT !.Balance = @ + amount, !.TotalEarn = @ + amount]

\* db.UpdateUserCredits is db.Save: it writes every field of the row the
\* caller holds over the stored row, whatever the stored row is by now.
UpdateUserCredits(credits, u) == [userCredits EXCEPT ![u] = credits]

\* the update of AddCredits
AddCreditsUpdate(w) ==
    /\ pc[w] = "AddCredits_update"
    /\ \/ /\ userCredits' = UpdateUserCredits(
                                Credited(local[w].credits, local[w].amount),
                                local[w].userID)
          /\ Goto(w, "AddCredits_tx",
                  [local[w] EXCEPT !.credits = Credited(local[w].credits, local[w].amount)])
          /\ UNCHANGED faults
       \/ /\ StorageError(w, LedgerError(w))
          /\ UNCHANGED userCredits
    /\ UNCHANGED otherTables
    /\ UNCHANGED <<now, creditTransactions, redeemCodes, redeemCodeUsages,
                   paymentOrders, calls>>

\* db.CreateCreditTransaction of AddCredits
AddCreditsTx(w) ==
    /\ pc[w] = "AddCredits_tx"
    /\ \/ /\ creditTransactions' = Append(creditTransactions,
                 CreditTransaction(local[w].userID, local[w].amount, "earn",
                                   local[w].reason, local[w].sourceID,
                                   local[w].credits.Balance))
          /\ Return(w, "ok")
          /\ UNCHANGED faults
       \/ /\ StorageError(w, LedgerError(w))
          /\ UNCHANGED creditTransactions
    /\ UNCHANGED otherTables
    /\ UNCHANGED <<now, userCredits, redeemCodes, redeemCodeUsages,
                   paymentOrders, calls>>

\* ----------------------------------------------- Ledger: DeductCredits
\* credits.Balance -= amount; credits.TotalSpent += amount
Debited(credits, amount) ==
    [credits EXCEPT !.Balance = @ - amount, !.TotalSpent = @ + amount]

\* the update of DeductCredits
DeductCreditsUpdate(w) ==
    /\ pc[w] = "DeductCredits_update"
    /\ \/ /\ userCredits' = UpdateUserCredits(
                                Debited(local[w].credits, local[w].amount),
                                local[w].userID)
          /\ Goto(w, "DeductCredits_tx",
                  [local[w] EXCEPT !.credits = Debited(local[w].credits, local[w].amount)])
          /\ UNCHANGED faults
       \/ /\ StorageError(w, LedgerError(w))
          /\ UNCHANGED userCredits
    /\ UNCHANGED otherTables
    /\ UNCHANGED <<now, creditTransactions, redeemCodes, redeemCodeUsages,
                   paymentOrders, calls>>

\* db.CreateCreditTransaction of DeductCredits
DeductCreditsTx(w) ==
    /\ pc[w] = "DeductCredits_tx"
    /\ \/ /\ creditTransactions' = Append(creditTransactions,
                 CreditTransaction(local[w].userID, -local[w].amount, "spend",
                                   "download", local[w].sourceID,
                                   local[w].credits.Balance))
          /\ Return(w, "ok")
          /\ UNCHANGED faults
       \/ /\ StorageError(w, LedgerError(w))
          /\ UNCHANGED creditTransactions
    /\ UNCHANGED otherTables
    /\ UNCHANGED <<now, userCredits, redeemCodes, redeemCodeUsages,
                   paymentOrders, calls>>

\* -------------------------------------------------------------- clock
Tick ==
    /\ \E d \in TickSteps : now + d <= MaxTime /\ now' = now + d
    /\ UNCHANGED otherTables
    /\ UNCHANGED <<userCredits, creditTransactions, redeemCodes, redeemCodeUsages,
                   paymentOrders, pc, local, ret, calls, faults>>

\* ------------------------------------------------- Redemption: RedeemCode
\* RedeemCode.IsExpired: a nil ExpiresAt never expires.
RedeemCodeIsExpired(rc, t) == rc.hasExpiry /\ t > rc.ExpiresAt

\* RedeemCode.CanUse
CanUse(rc, t) == rc.Enabled /\ ~RedeemCodeIsExpired(rc, t) /\ rc.UsedCount < rc.MaxUses

\* fmt.Sprintf of the reason RedeemCode hands to AddCredits (the prefix is the
\* source's text for "redeem code").
RedeemReason(code) == "redeem code: " \o code

\* RedeemCode(userID, code)
BeginRedeemCode(w) ==
    \E u \in UserIDs, c \in CodesAsked :
        /\ Begin(w, [NoLocal EXCEPT !.op = "RedeemCode", !.kind = "add",
                       !.userID = u, !.code = c],
                 "RedeemCode_get")
        /\ UNCHANGED otherTables
        /\ UNCHANGED <<now, userCredits, creditTransactions, redeemCodes,
                       redeemCodeUsages, paymentOrders, faults>>

\* db.GetRedeemCodeByCode: WHERE code = ? AND enabled = true
GetRedeemCodeByCode(code) ==
    IF code \in Codes /\ redeemCodes[code].exists /\ redeemCodes[code].Enabled
    THEN redeemCodes[code] ELSE NoRedeemCode

\* The lookup with a limit of one redemption per account: a user with a
\* usage record of the code is refused.
RedeemCodeGetOncePerUser(w) ==
    /\ pc[w] = "RedeemCode_get"
    /\ \/ /\ ~GetRedeemCodeByCode(local[w].code).exists
          /\ Return(w, "code_not_found")
          /\ UNCHANGED faults
       \/ /\ GetRedeemCodeByCode(local[w].code).exists
          /\ IF /\ CanUse(GetRedeemCodeByCode(local[w].code), now)
                /\ \A i \in 1..Len(redeemCodeUsages) :
                      ~( /\ redeemCodeUsages[i].UserID = local[w].userID
                         /\ redeemCodeUsages[i].RedeemCodeID = local[w].code )
             THEN Goto(w, "RedeemCode_update",
                       [local[w] EXCEPT !.redeemCode = GetRedeemCodeByCode(local[w].code)])
             ELSE Return(w, "code_unusable")
          /\ UNCHANGED faults
       \/ StorageError(w, "get_code_failed")
    /\ UNCHANGED otherTables
    /\ UNCHANGED <<now, userCredits, creditTransactions, redeemCodes,
                   redeemCodeUsages, paymentOrders, calls>>

\* the lookup and the CanUse check of RedeemCode
RedeemCodeGet(w) ==
    /\ pc[w] = "RedeemCode_get"
    /\ \/ /\ ~GetRedeemCodeByCode(local[w].code).exists
          /\ Return(w, "code_not_found")
          /\ UNCHANGED faults
       \/ /\ GetRedeemCodeByCode(local[w].code).exists
          /\ IF CanUse(GetRedeemCodeByCode(local[w].code), now)
             THEN Goto(w, "RedeemCode_update",
                       [local[w] EXCEPT !.redeemCode = GetRedeemCodeByCode(local[w].code)])
             ELSE Return(w, "code_unusable")
          /\ UNCHANGED faults
       \/ StorageError(w, "get_code_failed")
    /\ UNCHANGED otherTables
    /\ UNCHANGED <<now, userCredits, creditTransactions, redeemCodes,
                   redeemCodeUsages, paymentOrders, calls>>

\* redeemCode.UsedCount++
Used(rc) == [rc EXCEPT !.UsedCount = @ + 1]

\* db.UpdateRedeemCode is db.Save: the whole row the caller holds is written.
UpdateRedeemCode(rc, code) == [redeemCodes EXCEPT ![code] = rc]

\* the update of RedeemCode
RedeemCodeUpdate(w) ==
    /\ pc[w] = "RedeemCode_update"
    /\ \/ /\ redeemCodes' = UpdateRedeemCode(Used(local[w].redeemCode), local[w].code)
          /\ Goto(w, "RedeemCode_usage",
                  [local[w] EXCEPT !.redeemCode = Used(local[w].redeemCode)])
          /\ UNCHANGED faults
       \/ /\ StorageError(w, "update_code_failed")
          /\ UNCHANGED redeemCodes
    /\ UNCHANGED otherTables
    /\ UNCHANGED <<now, userCredits, creditTransactions, redeemCodeUsages,
                   paymentOrders, calls>>

\* model.RedeemCodeUsage, the fields RedeemCode sets
RedeemCodeUsage(u, code, credits, t) ==
    [UserID |-> u, RedeemCodeID |-> code, Credits |-> credits, UsedAt |-> t]

\* db.CreateRedeemCodeUsage, then the call AddCredits(userID, redeemCode.Credits,
\* reason, "")
RedeemCodeUsageCreate(w) ==
    /\ pc[w] = "RedeemCode_usage"
    /\ \/ /\ redeemCodeUsages' = Append(redeemCodeUsages,
                 RedeemCodeUsage(local[w].userID, local[w].code,
                                 local[w].redeemCode.Credits, now))
          /\ Goto(w, "GetUserCredits",
                  [local[w] EXCEPT !.amount = local[w].redeemCode.Credits,
                                   !.reason = RedeemReason(local[w].code),
                                   !.sourceID = ""])
          /\ UNCHANGED faults
       \/ /\ StorageError(w, "create_usage_failed")
          /\ UNCHANGED redeemCodeUsages
    /\ UNCHANGED otherTables
    /\ UNCHANGED <<now, userCredits, creditTransactions, redeemCodes,
                   paymentOrders, calls>>

\* ------------------------------------------- Payment orders: create
\* generateOrderID: an order number no row has yet.
FreshOrderNos == {o \in OrderNos : ~paymentOrders[o].exists}

\* CreatePaymentOrder(userID, amount, credits, paymentMethod): one insert
CreatePaymentOrder(w) ==
    /\ pc[w] = "idle"
    /\ calls < MaxCalls
    /\ calls' = calls + 1
    /\ \E u \in UserIDs, credits \in Amounts, o \in FreshOrderNos :
        /\ local' = [local EXCEPT ![w] =
              [NoLocal EXCEPT !.op = "CreatePaymentOrder", !.userID = u,
                              !.amount = credits, !.orderNo = o]]
        /\ \/ /\ paymentOrders' = [paymentOrders EXCEPT ![o] = NewOrder(u, credits, now)]
              /\ ret' = [ret EXCEPT ![w] = "ok"]
              /\ UNCHANGED faults
           \/ /\ faults < MaxFaults
              /\ faults' = faults + 1
              /\ ret' = [ret EXCEPT ![w] = "storage"]
              /\ UNCHANGED paymentOrders
    /\ UNCHANGED otherTables
    /\ UNCHANGED <<now, userCredits, creditTransactions, redeemCodes,
                   redeemCodeUsages, pc>>

\* ------------------------------------------ Payment orders: complete
\* An order that never counts as expired.
OrderNeverExpires(order, t) == FALSE

\* PaymentOrder.IsExpired
OrderIsExpired(order, t) == t > order.ExpiresAt

\* The same check written against the status the model documents for a settled
\* order ("paid"), which CompletePaymentOrder never writes.
OrderIsNotPaid(order) == order.Status # "paid"

\* PaymentOrder.IsPaid
IsPaid(order) == order.Status = "paid"

\* order.Status != "pending" is refused
OrderIsPending(order) == order.Status = "pending"

\* fmt.Sprintf of the reason CompletePaymentOrder hands to AddCredits (the
\* prefix is the source's text for "purchase credits").
PurchaseReason(orderNo) == "purchase credits: " \o orderNo

\* CompletePaymentOrder(orderNo, transactionID, amount, paidAt); the callers
\* pass time.Now() as paidAt.
BeginCompletePaymentOrder(w) ==
    \E o \in OrderNos :
        /\ Begin(w, [NoLocal EXCEPT !.op = "CompletePaymentOrder", !.kind = "add",
                       !.orderNo = o, !.paidAt = now],
                 "CompletePaymentOrder_get")
        /\ UNCHANGED otherTables
        /\ UNCHANGED <<now, userCredits, creditTransactions, redeemCodes,
                       redeemCodeUsages, paymentOrders, faults>>

\* order.Status = "completed"; order.PaymentData = ...; order.PaidAt = &paidAt
Completed(order, paidAt) ==
    [order EXCEPT !.Status = "completed", !.PaymentData = "transaction_id",
                  !.paid = TRUE, !.PaidAt = paidAt]

\* db.GetPaymentOrderByOrderNo and the two checks of CompletePaymentOrder
CompletePaymentOrderGet(w) ==
    /\ pc[w] = "CompletePaymentOrder_get"
    /\ \/ /\ ~paymentOrders[local[w].orderNo].exists
          /\ Return(w, "order_get_failed")
          /\ UNCHANGED faults
       \/ /\ paymentOrders[local[w].orderNo].exists
          /\ IF ~OrderIsPending(paymentOrders[local[w].orderNo])
             THEN Return(w, "invalid_state")
             ELSE IF OrderIsExpired(paymentOrders[local[w].orderNo], now)
             THEN Return(w, "order_expired")
             ELSE Goto(w, "CompletePaymentOrder_update",
                       [local[w] EXCEPT !.order =
                           Completed(paymentOrders[local[w].orderNo], local[w].paidAt)])
          /\ UNCHANGED faults
       \/ StorageError(w, "order_get_failed")
    /\ UNCHANGED otherTables
    /\ UNCHANGED <<now, userCredits, creditTransactions, redeemCodes,
                   redeemCodeUsages, paymentOrders, calls>>

\* db.UpdatePaymentOrder is db.Save: the whole row the caller holds is written.
UpdatePaymentOrder(order, orderNo) == [paymentOrders EXCEPT ![orderNo] = order]

\* the update of CompletePaymentOrder, then the call AddCredits(order.UserID,
\* order.Credits, reason, orderNo)
CompletePaymentOrderUpdate(w) ==
    /\ pc[w] = "CompletePaymentOrder_update"
    /\ \/ /\ paymentOrders' = UpdatePaymentOrder(local[w].order, local[w].orderNo)
          /\ Goto(w, "GetUserCredits",
                  [local[w] EXCEPT !.userID = local[w].order.UserID,
                                   !.amount = local[w].order.Credits,
                                   !.reason = PurchaseReason(local[w].orderNo),
                                   !.sourceID = local[w].orderNo])
          /\ UNCHANGED faults
       \/ /\ StorageError(w, "storage")
          /\ UNCHANGED paymentOrders
    /\ UNCHANGED otherTables
    /\ UNCHANGED <<now, userCredits, creditTransactions, redeemCodes,
                   redeemCodeUsages, calls>>

\* -------------------------------------------- Payment orders: cancel
\* CancelPaymentOrder(orderNo, userID)
BeginCancelPaymentOrder(w) ==
    \E o \in OrderNos, u \in UserIDs :
        /\ Begin(w, [NoLocal EXCEPT !.op = "CancelPaymentOrder",
                       !.orderNo = o, !.userID = u],
                 "CancelPaymentOrder_get")
        /\ UNCHANGED otherTables
        /\ UNCHANGED <<now, userCredits, creditTransactions, redeemCodes,
                       redeemCodeUsages, paymentOrders, faults>>

\* db.GetPaymentOrderByOrderNo and the status check of CancelPaymentOrder
CancelPaymentOrderGet(w) ==
    /\ pc[w] = "CancelPaymentOrder_get"
    /\ \/ /\ ~paymentOrders[local[w].orderNo].exists
          /\ Return(w, "order_get_failed")
          /\ UNCHANGED faults
       \/ /\ paymentOrders[local[w].orderNo].exists
          /\ IF ~OrderIsPending(paymentOrders[local[w].orderNo])
             THEN Return(w, "invalid_state")
             ELSE Goto(w, "CancelPaymentOrder_update",
                       [local[w] EXCEPT !.order =
                           [paymentOrders[local[w].orderNo] EXCEPT !.Status = "cancelled"]])
          /\ UNCHANGED faults
       \/ StorageError(w, "order_get_failed")
    /\ UNCHANGED otherTables
    /\ UNCHANGED <<now, userCredits, creditTransactions, redeemCodes,
                   redeemCodeUsages, paymentOrders, calls>>

\* the update of CancelPaymentOrder
CancelPaymentOrderUpdate(w) ==
    /\ pc[w] = "CancelPaymentOrder_update"
    /\ \/ /\ paymentOrders' = UpdatePaymentOrder(local[w].order, local[w].orderNo)
          /\ Return(w, "ok")
          /\ UNCHANGED faults
       \/ /\ StorageError(w, "storage")
          /\ UNCHANGED paymentOrders
    /\ UNCHANGED otherTables
    /\ UNCHANGED <<now, userCredits, creditTransactions, redeemCodes,
                   redeemCodeUsages, calls>>

\* --------------------------------------------- Payment orders: sweep
\* The row after UPDATE x_payment_orders SET status = 'expired'
\* WHERE expires_at < t AND status = 'pending'.
Swept(order, t) ==
    IF order.exists /\ order.ExpiresAt < t /\ order.Status = "pending"
    THEN [order EXCEPT !.Status = "expired"] ELSE order

\* db.CleanExpiredPaymentOrders: db.Where(cond, time.Now()).Update("status",
\* "expired"). The chain names neither a model nor a table (every other
\* statement of the file starts from db.Model(...) or is handed a row), so what
\* it does is the library's to decide: it runs the update over the payment
\* orders (r = "ok"), or it is refused for want of a table and returns an error
\* with no row changed (r = "no_table"). A storage error is the third outcome.
SweepResults == {"ok", "no_table", "storage"}

CleanExpiredPaymentOrdersUpdate(r) ==
    \/ /\ r = "ok"
       /\ paymentOrders' = [o \in OrderNos |-> Swept(paymentOrders[o], now)]
       /\ UNCHANGED faults
    \/ /\ r = "no_table"
       /\ UNCHANGED <<paymentOrders, faults>>
    \/ /\ r = "storage"
       /\ faults < MaxFaults
       /\ faults' = faults + 1
       /\ UNCHANGED paymentOrders

\* One call of CleanExpiredPaymentOrders, taken as a single step.
CleanExpiredPaymentOrders ==
    /\ calls < MaxCalls
    /\ calls' = calls + 1
    /\ \E r \in SweepResults : CleanExpiredPaymentOrdersUpdate(r)
    /\ UNCHANGED otherTables
    /\ UNCHANGED <<now, userCredits, creditTransactions, redeemCodes,
                   redeemCodeUsages, pc, local, ret>>

\* The same call made again and again by a periodic job: the job enters the
\* function, then the statement runs and its error is returned.
BeginCleanExpiredPaymentOrders(w) ==
    /\ pc[w] = "idle"
    /\ pc' = [pc EXCEPT ![w] = "CleanExpiredPaymentOrders"]
    /\ local' = [local EXCEPT ![w] =
          [NoLocal EXCEPT !.op = "CleanExpiredPaymentOrders"]]
    /\ ret' = [ret EXCEPT ![w] = "none"]
    /\ UNCHANGED otherTables
    /\ UNCHANGED <<now, userCredits, creditTransactions, redeemCodes,
                   redeemCodeUsages, paymentOrders, calls, faults>>

CleanExpiredPaymentOrdersReturn(w) ==
    /\ pc[w] = "CleanExpiredPaymentOrders"
    /\ \E r \in SweepResults :
          /\ CleanExpiredPaymentOrdersUpdate(r)
          /\ Return(w, r)
    /\ UNCHANGED otherTables
    /\ UNCHANGED <<now, userCredits, creditTransactions, redeemCodes,
                   redeemCodeUsages, calls>>

\* ------------------------------------- Payment orders: notification
\* The notifications a caller may post: any provider name, an order number or
\* none, a signature the provider made ("signed") or one it did not
\* ("forged"), and a trade status.
Notifications ==
    [provider : {"alipay", "wechat", "paypal"},
     out_trade_no : OrderNos \cup {""},
     sign : {"signed", "forged"},
     trade_status : {"TRADE_SUCCESS", "WAIT_BUYER_PAY"}]

\* AlipayProvider.verifyNotifySign: rsa.VerifyPKCS1v15 of the sign parameter
\* over the other parameters, under the provider's public key.
verifyNotifySign(n) == n.sign = "signed"

\* AlipayProvider.VerifyPayment: TRUE when it returns Success without error.
VerifyPayment(n) ==
    /\ verifyNotifySign(n)
    /\ ~(n.trade_status # "TRADE_SUCCESS" /\ n.trade_status # "TRADE_FINISHED")

\* handles.PaymentNotification up to its call of op.CompletePaymentOrder:
\* an unsupported provider is refused; the wechat body is kept as raw XML and
\* no order number is taken from it; for alipay the order number is
\* out_trade_no. With an empty order number the handler answers success at
\* once, otherwise it calls CompletePaymentOrder(orderNo, ..., time.Now()).
PaymentNotification(w) ==
    /\ pc[w] = "idle"
    /\ calls < MaxCalls
    /\ calls' = calls + 1
    /\ \E n \in Notifications :
        LET orderNo == IF n.provider = "alipay" THEN n.out_trade_no ELSE ""
            l == [NoLocal EXCEPT !.op = "PaymentNotification",
                                 !.orderNo = orderNo]
        IN  IF n.provider \notin {"alipay", "wechat"}
            THEN /\ local' = [local EXCEPT ![w] = l]
                 /\ ret' = [ret EXCEPT ![w] = "unsupported_provider"]
                 /\ UNCHANGED pc
            ELSE IF orderNo = ""
            THEN /\ local' = [local EXCEPT ![w] = l]
                 /\ ret' = [ret EXCEPT ![w] = "ok"]
                 /\ UNCHANGED pc
            ELSE /\ local' = [local EXCEPT ![w] =
                        [l EXCEPT !.op = "CompletePaymentOrder", !.kind = "add",
                                  !.paidAt = now, !.notification = n]]
                 /\ ret' = [ret EXCEPT ![w] = "running"]
                 /\ pc' = [pc EXCEPT ![w] = "CompletePaymentOrder_get"]
    /\ UNCHANGED otherTables
    /\ UNCHANGED <<now, userCredits, creditTransactions, redeemCodes,
                   redeemCodeUsages, paymentOrders, faults>>

\* ------------------------------------------------------ Pricing: rules
\* db.CreateFileCreditsConfig: one insert of a rule; path carries a unique
\* index, so the insert fails when a rule with this path exists.
\* (op.SetFileCreditsConfig sets Path, Credits and IsFolder; the other two
\* columns are written by whoever else fills the table.)
CreateFileCreditsConfig ==
    /\ calls < MaxCalls
    /\ calls' = calls + 1
    /\ \E p \in RulePaths, c \in RuleCredits,
          isFolder \in BOOLEAN, inheritable \in BOOLEAN, enabled \in BOOLEAN :
          \/ /\ fileCreditsConfigs[p] = NoConfig
             /\ fileCreditsConfigs' = [fileCreditsConfigs EXCEPT ![p] =
                    FileCreditsConfig(p, c, isFolder, inheritable, enabled)]
             /\ UNCHANGED faults
          \/ /\ fileCreditsConfigs[p] # NoConfig
             /\ UNCHANGED <<fileCreditsConfigs, faults>>
          \/ /\ faults < MaxFaults
             /\ faults' = faults + 1
             /\ UNCHANGED fileCreditsConfigs
    /\ UNCHANGED <<now, userCredits, creditTransactions, redeemCodes,
                   redeemCodeUsages, paymentOrders, pc, local, ret,
                   userRegistrations, verificationCodes, users>>

\* ------------------------------------------------- Pricing: resolution
\* SQL LIKE: in the pattern "_" matches any one character and "%" any
\* sequence of characters; every other character matches itself.
RECURSIVE Like(_, _)
Like(text, pattern) ==
    IF pattern = <<>> THEN text = <<>>
    ELSE IF Head(pattern) = "%"
    THEN Like(text, Tail(pattern)) \/ (text # <<>> /\ Like(Tail(text), pattern))
    ELSE /\ text # <<>>
         /\ (Head(pattern) = "_" \/ Head(pattern) = Head(text))
         /\ Like(Tail(text), Tail(pattern))

\* db.GetFileCreditsConfigByPath: WHERE path = ? AND enabled = true
GetFileCreditsConfigByPath(path) ==
    IF path \in RulePaths /\ fileCreditsConfigs[path].exists
                          /\ fileCreditsConfigs[path].Enabled
    THEN fileCreditsConfigs[path] ELSE NoConfig

\* db.GetInheritableCreditsConfig: WHERE ? LIKE CONCAT(path, '%') AND
\* is_folder = true AND inheritable = true AND enabled = true
\* ORDER BY LENGTH(path) DESC, first row: the set of rows that can come first.
GetInheritableCreditsConfig(path) ==
    LET matches == {c \in {fileCreditsConfigs[q] : q \in RulePaths} :
                        /\ c.exists
                        /\ Like(path, c.Path \o <<"%">>)
                        /\ c.IsFolder /\ c.Inheritable /\ c.Enabled}
    IN  {c \in matches : \A d \in matches : Len(d.Path) <= Len(c.Path)}

\* GetFileCreditsConfig returns a rule: to its caller, or to the delete
\* handler, which goes on to delete the rule with the ID of what it got.
ReturnConfig(w, c) ==
    IF local[w].op \in DownloadOps
    THEN IF c.Credits <= 0
         THEN ReturnPermission(w, TRUE, 0)
         ELSE Goto(w, "GetUserCredits",
                   [local[w] EXCEPT !.kind = "check", !.config = c,
                                    !.amount = c.Credits])
    ELSE
    IF local[w].op = "DeleteFileCreditsConfig"
    THEN Goto(w, "DeleteFileCreditsConfig_delete", [local[w] EXCEPT !.config = c])
    ELSE /\ pc' = [pc EXCEPT ![w] = "idle"]
         /\ ret' = [ret EXCEPT ![w] = "ok"]
         /\ local' = [local EXCEPT ![w] =
                 [NoLocal EXCEPT !.op = local[w].op, !.path = local[w].path,
                                 !.config = c]]

\* GetFileCreditsConfig returns an error: to its caller, or to
\* CheckFileDownloadPermission, which takes any error as "no rule, free".
ConfigError(w, r) ==
    IF local[w].op \in DownloadOps
    THEN ReturnPermission(w, TRUE, 0)
    ELSE Return(w, r)

\* GetFileCreditsConfig(path)
BeginGetFileCreditsConfig(w) ==
    \E p \in AskedPaths :
        /\ Begin(w, [NoLocal EXCEPT !.op = "GetFileCreditsConfig", !.path = p],
                 "GetFileCreditsConfig_exact")
        /\ UNCHANGED otherTables
        /\ UNCHANGED <<now, userCredits, creditTransactions, redeemCodes,
                       redeemCodeUsages, paymentOrders, faults>>

\* the exact lookup of GetFileCreditsConfig
GetFileCreditsConfigExact(w) ==
    /\ pc[w] = "GetFileCreditsConfig_exact"
    /\ \/ /\ GetFileCreditsConfigByPath(local[w].path).exists
          /\ ReturnConfig(w, GetFileCreditsConfigByPath(local[w].path))
          /\ UNCHANGED faults
       \/ /\ ~GetFileCreditsConfigByPath(local[w].path).exists
          /\ Goto(w, "GetFileCreditsConfig_inherit", local[w])
          /\ UNCHANGED faults
       \/ /\ faults < MaxFaults
          /\ faults' = faults + 1
          /\ ConfigError(w, "get_config_failed")
    /\ UNCHANGED otherTables
    /\ UNCHANGED <<now, userCredits, creditTransactions, redeemCodes,
                   redeemCodeUsages, paymentOrders, calls>>

\* the lookup of an inheritable rule, whose result and error are returned
\* as they are
GetFileCreditsConfigInherit(w) ==
    /\ pc[w] = "GetFileCreditsConfig_inherit"
    /\ \/ /\ \E c \in GetInheritableCreditsConfig(local[w].path) : ReturnConfig(w, c)
          /\ UNCHANGED faults
       \/ /\ GetInheritableCreditsConfig(local[w].path) = {}
          /\ ConfigError(w, "record_not_found")
          /\ UNCHANGED faults
       \/ /\ faults < MaxFaults
          /\ faults' = faults + 1
          /\ ConfigError(w, "storage")
    /\ UNCHANGED otherTables
    /\ UNCHANGED <<now, userCredits, creditTransactions, redeemCodes,
                   redeemCodeUsages, paymentOrders, calls>>

\* --------------------------------------------------- Pricing: delete
\* handles.DeleteFileCreditsConfig, ?path=...: op.GetFileCreditsConfig(path),
\* then op.DeleteFileCreditsConfig(config.ID).
BeginDeleteFileCreditsConfig(w) ==
    \E p \in AskedPaths :
        /\ Begin(w, [NoLocal EXCEPT !.op = "DeleteFileCreditsConfig", !.path = p],
                 "GetFileCreditsConfig_exact")
        /\ UNCHANGED otherTables
        /\ UNCHANGED <<now, userCredits, creditTransactions, redeemCodes,
                       redeemCodeUsages, paymentOrders, faults>>

\* db.DeleteFileCreditsConfig(id): the model has a DeletedAt column, so the
\* row is marked deleted and no query sees it any more; its path stays taken
\* in the unique index. A rule's ID stands for the row of its path.
Deleted(config) == [config EXCEPT !.exists = FALSE]

DeleteFileCreditsConfigDelete(w) ==
    /\ pc[w] = "DeleteFileCreditsConfig_delete"
    /\ \/ /\ fileCreditsConfigs' = [fileCreditsConfigs EXCEPT
                 ![local[w].config.Path] = Deleted(@)]
          /\ Return(w, "ok")
          /\ UNCHANGED faults
       \/ /\ StorageError(w, "delete_config_failed")
          /\ UNCHANGED fileCreditsConfigs
    /\ UNCHANGED <<now, userCredits, creditTransactions, redeemCodes,
                   redeemCodeUsages, paymentOrders, calls,
                   userRegistrations, verificationCodes, users>>

\* ------------------------------------------------- Download: entry
\* CheckFileDownloadPermission(userID, filePath)
BeginCheckFileDownloadPermission(w) ==
    \E u \in UserIDs, p \in AskedPaths :
        /\ Begin(w, [NoLocal EXCEPT !.op = "CheckFileDownloadPermission",
                       !.userID = u, !.path = p],
                 "GetFileCreditsConfig_exact")
        /\ UNCHANGED otherTables
        /\ UNCHANGED <<now, userCredits, creditTransactions, redeemCodes,
                       redeemCodeUsages, paymentOrders, faults>>

\* ProcessFileDownload(userID, filePath)
BeginProcessFileDownload(w) ==
    \E u \in UserIDs, p \in AskedPaths :
        /\ Begin(w, [NoLocal EXCEPT !.op = "ProcessFileDownload",
                       !.userID = u, !.path = p],
                 "GetFileCreditsConfig_exact")
        /\ UNCHANGED otherTables
        /\ UNCHANGED <<now, userCredits, creditTransactions, redeemCodes,
                       redeemCodeUsages, paymentOrders, faults>>

\* CheckFileDownloadPermission, the credits it requires for what
\* GetFileCreditsConfig returned: any error and any Credits <= 0 are free.
RequiredCredits(r, config) ==
    IF r # "ok" THEN 0 ELSE IF config.Credits <= 0 THEN 0 ELSE config.Credits

\* ------------------------------------------- Registration: the lookup
\* The same lookup without the status condition.
GetUserRegistrationByTokenAnyStatus(token) ==
    LET ids == {r \in RegistrationIDs :
                    /\ userRegistrations[r].exists
                    /\ userRegistrations[r].Token = token}
    IN  IF ids = {} THEN NoRegistration
        ELSE userRegistrations[CHOOSE r \in ids : \A q \in ids : r <= q]

\* db.GetUserRegistrationByToken: WHERE token = ? AND status = 0, first row
\* by primary key.
GetUserRegistrationByToken(token) ==
    LET ids == {r \in RegistrationIDs :
                    /\ userRegistrations[r].exists
                    /\ userRegistrations[r].Token = token
                    /\ userRegistrations[r].Status = 0}
    IN  IF ids = {} THEN NoRegistration
        ELSE userRegistrations[CHOOSE r \in ids : \A q \in ids : r <= q]

\* The expiry time of a registration is not looked at.
RegistrationNeverExpires(registration, t) == FALSE

\* UserRegistration.IsExpired
RegistrationIsExpired(registration, t) == t > registration.ExpiresAt

\* db.UpdateUserRegistration is db.Save: the whole row the caller holds is
\* written over the row with its id.
UpdateUserRegistration(registration) ==
    [userRegistrations EXCEPT ![registration.ID] = registration]

\* --------------------------------- Registration: VerifyUserRegistration
\* VerifyUserRegistration(token)
BeginVerifyUserRegistration(w) ==
    \E t \in Tokens :
        /\ Begin(w, [NoLocal EXCEPT !.op = "VerifyUserRegistration", !.token = t],
                 "VerifyUserRegistration_get")
        /\ UNCHANGED otherTables
        /\ UNCHANGED <<now, userCredits, creditTransactions, redeemCodes,
                       redeemCodeUsages, paymentOrders, faults>>

\* the lookup and the expiry check of VerifyUserRegistration
VerifyUserRegistrationGet(w) ==
    /\ pc[w] = "VerifyUserRegistration_get"
    /\ \/ /\ ~GetUserRegistrationByToken(local[w].token).exists
          /\ Return(w, "invalid_link")
          /\ UNCHANGED faults
       \/ /\ GetUserRegistrationByToken(local[w].token).exists
          /\ IF RegistrationIsExpired(GetUserRegistrationByToken(local[w].token), now)
             THEN Return(w, "link_expired")
             ELSE Goto(w, "VerifyUserRegistration_update",
                       [local[w] EXCEPT !.registration =
                           [GetUserRegistrationByToken(local[w].token)
                                EXCEPT !.Status = 1]])
          /\ UNCHANGED faults
       \/ StorageError(w, "registration_get_failed")
    /\ UNCHANGED otherTables
    /\ UNCHANGED <<now, userCredits, creditTransactions, redeemCodes,
                   redeemCodeUsages, paymentOrders, calls>>

\* the update of VerifyUserRegistration
VerifyUserRegistrationUpdate(w) ==
    /\ pc[w] = "VerifyUserRegistration_update"
    /\ \/ /\ userRegistrations' = UpdateUserRegistration(local[w].registration)
          /\ Return(w, "ok")
          /\ UNCHANGED faults
       \/ /\ StorageError(w, "registration_update_failed")
          /\ UNCHANGED userRegistrations
    /\ UNCHANGED <<now, userCredits, creditTransactions, redeemCodes,
                   redeemCodeUsages, paymentOrders, calls,
                   fileCreditsConfigs, verificationCodes, users>>

\* -------------------------------- Registration: ApproveUserRegistration
\* ApproveUserRegistration(registrationID)
BeginApproveUserRegistration(w) ==
    \E r \in RegistrationIDs :
        /\ Begin(w, [NoLocal EXCEPT !.op = "ApproveUserRegistration",
                       !.registrationID = r],
                 "ApproveUserRegistration_get")
        /\ UNCHANGED otherTables
        /\ UNCHANGED <<now, userCredits, creditTransactions, redeemCodes,
                       redeemCodeUsages, paymentOrders, faults>>

\* One step of ApproveUserRegistration, by the position of the call:
\*   _get           db.GetUserRegistrationByToken("") (the registrationID is
\*                  not used) and the check registration.Status != 1;
\*   _createUser    CreateUser(user): the user gets the next id;
\*   _createCredits db.CreateUserCredits for the new user, user_id unique;
\*   _update        registration.Status = 2 and db.UpdateUserRegistration.
\* The lookup returns rows of status 0 only, so the check refuses every row
\* it returns and no call gets past _get.
ApproveUserRegistrationStep(w) ==
    /\ pc[w] \in {"ApproveUserRegistration_get", "ApproveUserRegistration_createUser",
                  "ApproveUserRegistration_createCredits",
                  "ApproveUserRegistration_update"}
    /\ CASE pc[w] = "ApproveUserRegistration_get" ->
              /\ \/ /\ ~GetUserRegistrationByToken("").exists
                    /\ Return(w, "registration_get_failed")
                    /\ UNCHANGED faults
                 \/ /\ GetUserRegistrationByToken("").exists
                    /\ IF GetUserRegistrationByToken("").Status # 1
                       THEN Return(w, "not_verified")
                       ELSE Goto(w, "ApproveUserRegistration_createUser",
                                 [local[w] EXCEPT !.registration =
                                     GetUserRegistrationByToken("")])
                    /\ UNCHANGED faults
                 \/ StorageError(w, "registration_get_failed")
              /\ UNCHANGED <<users, userCredits, userRegistrations>>
         [] pc[w] = "ApproveUserRegistration_createUser" ->
              /\ \/ /\ users' = Append(users, local[w].registration.Username)
                    /\ Goto(w, "ApproveUserRegistration_createCredits",
                            [local[w] EXCEPT !.userID = Len(users) + 1])
                    /\ UNCHANGED faults
                 \/ /\ StorageError(w, "create_user_failed")
                    /\ UNCHANGED users
              /\ UNCHANGED <<userCredits, userRegistrations>>
         [] pc[w] = "ApproveUserRegistration_createCredits" ->
              /\ \/ /\ local[w].userID \notin DOMAIN userCredits
                         \/ ~userCredits[local[w].userID].exists
                    /\ userCredits' =
                          [u \in DOMAIN userCredits \cup {local[w].userID} |->
                              IF u = local[w].userID THEN NewAccount
                                                     ELSE userCredits[u]]
                    /\ Goto(w, "ApproveUserRegistration_update",
                            [local[w] EXCEPT !.registration.Status = 2])
                    /\ UNCHANGED faults
                 \/ /\ local[w].userID \in DOMAIN userCredits
                    /\ userCredits[local[w].userID].exists
                    /\ Return(w, "create_credits_failed")
                    /\ UNCHANGED <<userCredits, faults>>
                 \/ /\ StorageError(w, "create_credits_failed")
                    /\ UNCHANGED userCredits
              /\ UNCHANGED <<users, userRegistrations>>
         [] pc[w] = "ApproveUserRegistration_update" ->
              /\ \/ /\ userRegistrations' = UpdateUserRegistration(local[w].registration)
                    /\ Return(w, "ok")
                    /\ UNCHANGED faults
                 \/ /\ StorageError(w, "registration_update_failed")
                    /\ UNCHANGED userRegistrations
              /\ UNCHANGED <<users, userCredits>>
    /\ UNCHANGED <<now, creditTransactions, redeemCodes, redeemCodeUsages,
                   paymentOrders, calls, fileCreditsConfigs, verificationCodes>>

\* --------------------------------- Registration: RejectUserRegistration
\* RejectUserRegistration(registrationID)
BeginRejectUserRegistration(w) ==
    \E r \in RegistrationIDs :
        /\ Begin(w, [NoLocal EXCEPT !.op = "RejectUserRegistration",
                       !.registrationID = r],
                 "RejectUserRegistration_get")
        /\ UNCHANGED otherTables
        /\ UNCHANGED <<now, userCredits, creditTransactions, redeemCodes,
                       redeemCodeUsages, paymentOrders, faults>>

\* One step of RejectUserRegistration, by the position of the call:
\*   _get     db.GetUserRegistrationByToken("") (the registrationID is not
\*            used);
\*   _update  registration.Status = -1 and db.UpdateUserRegistration.
\* CreateUserRegistration gives every row a token of 64 hex digits, so the
\* lookup of the empty token finds no row and no call gets past _get.
RejectUserRegistrationStep(w) ==
    /\ pc[w] \in {"RejectUserRegistration_get", "RejectUserRegistration_update"}
    /\ CASE pc[w] = "RejectUserRegistration_get" ->
              /\ \/ /\ ~GetUserRegistrationByToken("").exists
                    /\ Return(w, "registration_get_failed")
                    /\ UNCHANGED faults
                 \/ /\ GetUserRegistrationByToken("").exists
                    /\ Goto(w, "RejectUserRegistration_update",
                            [local[w] EXCEPT !.registration =
                                [GetUserRegistrationByToken("") EXCEPT !.Status = -1]])
                    /\ UNCHANGED faults
                 \/ StorageError(w, "registration_get_failed")
              /\ UNCHANGED userRegistrations
         [] pc[w] = "RejectUserRegistration_update" ->
              \/ /\ userRegistrations' = UpdateUserRegistration(local[w].registration)
                 /\ Return(w, "ok")
                 /\ UNCHANGED faults
              \/ /\ StorageError(w, "registration_update_failed")
                 /\ UNCHANGED userRegistrations
    /\ UNCHANGED <<now, userCredits, creditTransactions, redeemCodes,
                   redeemCodeUsages, paymentOrders, calls,
                   fileCreditsConfigs, verificationCodes, users>>

\* ------------------------------------------ Verification codes: create
\* CreateVerificationCode(email, codeType): one insert of a code of six
\* random characters.
CreateVerificationCode ==
    /\ calls < MaxCalls
    /\ calls' = calls + 1
    /\ \E e \in Emails, c \in CodeValues :
          \/ /\ verificationCodes' = Append(verificationCodes,
                    NewVerificationCode(e, c, "register", now))
             /\ UNCHANGED faults
          \/ /\ faults < MaxFaults
             /\ faults' = faults + 1
             /\ UNCHANGED verificationCodes
    /\ UNCHANGED <<now, userCredits, creditTransactions, redeemCodes,
                   redeemCodeUsages, paymentOrders, pc, local, ret,
                   fileCreditsConfigs, userRegistrations, users>>

\* ------------------------------------------ Verification codes: verify
\* db.GetVerificationCode: WHERE email = ? AND type = ? AND used = false AND
\* expires_at > now ORDER BY created_at DESC, first row: the position of the
\* row in the table, 0 when there is none.
GetVerificationCode(email, codeType, t) ==
    LET ids == {i \in 1 .. Len(verificationCodes) :
                    /\ verificationCodes[i].Email = email
                    /\ verificationCodes[i].Type = codeType
                    /\ verificationCodes[i].Used = FALSE
                    /\ verificationCodes[i].ExpiresAt > t}
    IN  IF ids = {} THEN 0 ELSE CHOOSE i \in ids : \A j \in ids : j <= i

\* VerificationCode.IsExpired
VerificationCodeIsExpired(vc, t) == t > vc.ExpiresAt

\* VerificationCode.CanUse
VerificationCodeCanUse(vc, t) == ~vc.Used /\ ~VerificationCodeIsExpired(vc, t)

\* db.UpdateVerificationCode is db.Save: the whole row the caller holds is
\* written over the row with its id.
UpdateVerificationCode(vc, id) == [verificationCodes EXCEPT ![id] = vc]

\* VerifyCode(email, code, codeType)
BeginVerifyCode(w) ==
    \E e \in Emails, c \in CodeValues :
        /\ Begin(w, [NoLocal EXCEPT !.op = "VerifyCode", !.email = e,
                       !.code = c, !.codeType = "register"],
                 "VerifyCode_get")
        /\ UNCHANGED otherTables
        /\ UNCHANGED <<now, userCredits, creditTransactions, redeemCodes,
                       redeemCodeUsages, paymentOrders, faults>>

\* the lookup and the checks of VerifyCode
VerifyCodeGet(w) ==
    /\ pc[w] = "VerifyCode_get"
    /\ LET id == GetVerificationCode(local[w].email, local[w].codeType, now)
       IN  \/ /\ id = 0
              /\ Return(w, "code_missing_or_expired")
              /\ UNCHANGED faults
           \/ /\ id # 0
              /\ IF ~VerificationCodeCanUse(verificationCodes[id], now)
                 THEN Return(w, "code_used_or_expired")
                 ELSE IF verificationCodes[id].Code # local[w].code
                 THEN Return(w, "wrong_code")
                 ELSE Goto(w, "VerifyCode_update",
                           [local[w] EXCEPT
                               !.verificationCodeID = id,
                               !.verificationCode =
                                   [verificationCodes[id] EXCEPT !.Used = TRUE]])
              /\ UNCHANGED faults
           \/ StorageError(w, "get_verification_code_failed")
    /\ UNCHANGED otherTables
    /\ UNCHANGED <<now, userCredits, creditTransactions, redeemCodes,
                   redeemCodeUsages, paymentOrders, calls>>

\* the update of VerifyCode
VerifyCodeUpdate(w) ==
    /\ pc[w] = "VerifyCode_update"
    /\ \/ /\ verificationCodes' = UpdateVerificationCode(local[w].verificationCode,
                                                       local[w].verificationCodeID)
          /\ Return(w, "ok")
          /\ UNCHANGED faults
       \/ /\ StorageError(w, "update_verification_code_failed")
          /\ UNCHANGED verificationCodes
    /\ UNCHANGED <<now, userCredits, creditTransactions, redeemCodes,
                   redeemCodeUsages, paymentOrders, calls,
                   fileCreditsConfigs, userRegistrations, users>>

\* --------------------------------------------------- Ledger: the system
Next ==
    \E w \in Workers :
        \/ BeginAddCredits(w)
        \/ BeginDeductCredits(w)
        \/ GetUserCredits(w)
        \/ CreateUserCreditsCheck(w)
        \/ CreateUserCreditsCreate(w)
        \/ AddCreditsUpdate(w)
        \/ AddCreditsTx(w)
        \/ DeductCreditsUpdate(w)
        \/ DeductCreditsTx(w)

Spec == Init /\ [][Next]_vars

\* GetUserCredits alone, from several callers at once.
NextAccounts ==
    \E w \in Workers :
        \/ BeginGetUserCredits(w)
        \/ GetUserCredits(w)
        \/ CreateUserCreditsCheck(w)
        \/ CreateUserCreditsCreate(w)

SpecAccounts == Init /\ [][NextAccounts]_vars

\* ----------------------------------------------- Redemption: the system
NextRedeem ==
    \/ \E w \in Workers :
        \/ BeginRedeemCode(w)
        \/ RedeemCodeGet(w)
        \/ RedeemCodeUpdate(w)
        \/ RedeemCodeUsageCreate(w)
        \/ GetUserCredits(w)
        \/ CreateUserCreditsCheck(w)
        \/ CreateUserCreditsCreate(w)
        \/ AddCreditsUpdate(w)
        \/ AddCreditsTx(w)
    \/ Tick

SpecRedeem == Init /\ [][NextRedeem]_vars

\* The same operation called one call after the other.
NextRedeemSeq ==
    \/ \E w \in Workers :
        \/ OthersIdle(w) /\ BeginRedeemCode(w)
        \/ OthersIdle(w) /\ RedeemCodeGet(w)
        \/ OthersIdle(w) /\ RedeemCodeUpdate(w)
        \/ OthersIdle(w) /\ RedeemCodeUsageCreate(w)
        \/ OthersIdle(w) /\ GetUserCredits(w)
        \/ OthersIdle(w) /\ CreateUserCreditsCheck(w)
        \/ OthersIdle(w) /\ CreateUserCreditsCreate(w)
        \/ OthersIdle(w) /\ AddCreditsUpdate(w)
        \/ OthersIdle(w) /\ AddCreditsTx(w)
    \/ Tick

SpecRedeemSeq == Init /\ [][NextRedeemSeq]_vars

\* ------------------------------------------- Payment orders: the system
OrderStep(w) ==
    \/ CreatePaymentOrder(w)
    \/ BeginCompletePaymentOrder(w)
    \/ CompletePaymentOrderGet(w)
    \/ CompletePaymentOrderUpdate(w)
    \/ BeginCancelPaymentOrder(w)
    \/ CancelPaymentOrderGet(w)
    \/ CancelPaymentOrderUpdate(w)
    \/ GetUserCredits(w)
    \/ CreateUserCreditsCheck(w)
    \/ CreateUserCreditsCreate(w)
    \/ AddCreditsUpdate(w)
    \/ AddCreditsTx(w)

NextOrders ==
    \/ \E w \in Workers : OrderStep(w)
    \/ CleanExpiredPaymentOrders
    \/ Tick

SpecOrders == Init /\ [][NextOrders]_vars

\* The same operations called one after the other.
NextOrdersSeq ==
    \/ \E w \in Workers :
        \/ OthersIdle(w) /\ CreatePaymentOrder(w)
        \/ OthersIdle(w) /\ BeginCompletePaymentOrder(w)
        \/ OthersIdle(w) /\ CompletePaymentOrderGet(w)
        \/ OthersIdle(w) /\ CompletePaymentOrderUpdate(w)
        \/ OthersIdle(w) /\ BeginCancelPaymentOrder(w)
        \/ OthersIdle(w) /\ CancelPaymentOrderGet(w)
        \/ OthersIdle(w) /\ CancelPaymentOrderUpdate(w)
        \/ OthersIdle(w) /\ GetUserCredits(w)
        \/ OthersIdle(w) /\ CreateUserCreditsCheck(w)
        \/ OthersIdle(w) /\ CreateUserCreditsCreate(w)
        \/ OthersIdle(w) /\ AddCreditsUpdate(w)
        \/ OthersIdle(w) /\ AddCreditsTx(w)
    \/ (\A w \in Workers : pc[w] = "idle") /\ CleanExpiredPaymentOrders
    \/ Tick

SpecOrdersSeq == Init /\ [][NextOrdersSeq]_vars

\* The order operations with the sweep as a periodic job and a clock that
\* reaches its end. An order is created only while its expiry lies before the
\* end of the clock, so that every order of a run can be past its expiry.
TickToEnd ==
    /\ now < MaxTime
    /\ now' = MaxTime
    /\ UNCHANGED otherTables
    /\ UNCHANGED <<userCredits, creditTransactions, redeemCodes, redeemCodeUsages,
                   paymentOrders, pc, local, ret, calls, faults>>

\* A step of a call that is in flight.
InFlight(w) == pc[w] # "idle" /\ OrderStep(w)

NextOrdersLive ==
    \/ \E w \in Workers :
        \/ now + OrderTTL < MaxTime /\ CreatePaymentOrder(w)
        \/ BeginCompletePaymentOrder(w)
        \/ BeginCancelPaymentOrder(w)
        \/ InFlight(w)
        \/ BeginCleanExpiredPaymentOrders(w)
        \/ CleanExpiredPaymentOrdersReturn(w)
    \/ Tick
    \/ TickToEnd

\* Time advances, a call in flight runs on to its return, and the job calls
\* CleanExpiredPaymentOrders again and again.
SpecOrdersLive ==
    /\ Init
    /\ [][NextOrdersLive]_vars
    /\ WF_vars(Tick \/ TickToEnd)
    /\ \A w \in Workers : WF_vars(InFlight(w))
    /\ WF_vars(\E w \in Workers : BeginCleanExpiredPaymentOrders(w))
    /\ WF_vars(\E w \in Workers : CleanExpiredPaymentOrdersReturn(w))

\* ------------------------------------ Payment notifications: the system
NextNotify ==
    \/ \E w \in Workers :
        \/ CreatePaymentOrder(w)
        \/ PaymentNotification(w)
        \/ CompletePaymentOrderGet(w)
        \/ CompletePaymentOrderUpdate(w)
        \/ GetUserCredits(w)
        \/ CreateUserCreditsCheck(w)
        \/ CreateUserCreditsCreate(w)
        \/ AddCreditsUpdate(w)
        \/ AddCreditsTx(w)
    \/ Tick

SpecNotify == Init /\ [][NextNotify]_vars

\* ------------------------------------------------- Pricing: the system
\* Rules are set and paths resolved one call after the other.
NextPricing ==
    \/ \E w \in Workers :
        \/ OthersIdle(w) /\ BeginGetFileCreditsConfig(w)
        \/ OthersIdle(w) /\ GetFileCreditsConfigExact(w)
        \/ OthersIdle(w) /\ GetFileCreditsConfigInherit(w)
    \/ (\A w \in Workers : pc[w] = "idle") /\ CreateFileCreditsConfig

SpecPricing == Init /\ [][NextPricing]_vars

\* Rules are set, resolved and deleted, one call after the other.
NextPricingDelete ==
    \/ \E w \in Workers :
        \/ OthersIdle(w) /\ BeginGetFileCreditsConfig(w)
        \/ OthersIdle(w) /\ BeginDeleteFileCreditsConfig(w)
        \/ OthersIdle(w) /\ GetFileCreditsConfigExact(w)
        \/ OthersIdle(w) /\ GetFileCreditsConfigInherit(w)
        \/ OthersIdle(w) /\ DeleteFileCreditsConfigDelete(w)
    \/ (\A w \in Workers : pc[w] = "idle") /\ CreateFileCreditsConfig

SpecPricingDelete == Init /\ [][NextPricingDelete]_vars

\* ------------------------------------------------ Download: the system
\* Rules are set and downloads are checked and paid, one call after the
\* other.
NextDownload ==
    \/ \E w \in Workers :
        \/ OthersIdle(w) /\ BeginCheckFileDownloadPermission(w)
        \/ OthersIdle(w) /\ BeginProcessFileDownload(w)
        \/ OthersIdle(w) /\ GetFileCreditsConfigExact(w)
        \/ OthersIdle(w) /\ GetFileCreditsConfigInherit(w)
        \/ OthersIdle(w) /\ GetUserCredits(w)
        \/ OthersIdle(w) /\ CreateUserCreditsCheck(w)
        \/ OthersIdle(w) /\ CreateUserCreditsCreate(w)
        \/ OthersIdle(w) /\ DeductCreditsUpdate(w)
        \/ OthersIdle(w) /\ DeductCreditsTx(w)
    \/ (\A w \in Workers : pc[w] = "idle") /\ CreateFileCreditsConfig

SpecDownload == Init /\ [][NextDownload]_vars

\* -------------------------------------------- Registration: the system
NextRegistration ==
    \/ \E w \in Workers :
        \/ BeginVerifyUserRegistration(w)
        \/ VerifyUserRegistrationGet(w)
        \/ VerifyUserRegistrationUpdate(w)
        \/ BeginApproveUserRegistration(w)
        \/ ApproveUserRegistrationStep(w)
        \/ BeginRejectUserRegistration(w)
        \/ RejectUserRegistrationStep(w)
    \/ Tick

SpecRegistration == Init /\ [][NextRegistration]_vars

\* --------------------------------------- Verification codes: the system
NextVerifyCode ==
    \/ \E w \in Workers :
        \/ BeginVerifyCode(w)
        \/ VerifyCodeGet(w)
        \/ VerifyCodeUpdate(w)
    \/ CreateVerificationCode
    \/ Tick

SpecVerifyCode == Init /\ [][NextVerifyCode]_vars

\* ======================================================== Ledger claims
Quiescent == \A w \in Workers : pc[w] = "idle"

\* Both workers have made one call each, the only calls so far, and both
\* calls have returned.
OneCallEach(op) ==
    /\ calls = 2
    /\ \A w \in Workers : pc[w] = "idle" /\ local[w].op = op

\* C1: balance conservation. For every account the amounts of its
\* transactions sum to its Balance. Stated where it is weakest: only when no
\* call is in flight and no storage error has occurred.
C1_BalanceConservation ==
    (Quiescent /\ faults = 0) =>
        \A u \in UserIDs :
            userCredits[u].exists =>
                SumAmounts(TxOf(u)) = userCredits[u].Balance

\* C2: concurrent debit race. Two DeductCredits calls of 60 on the account
\* with balance 100, in any interleaving, end with exactly one success, one
\* insufficient-balance failure and balance 40.
C2_ConcurrentDebitRace ==
    ( /\ OneCallEach("DeductCredits")
      /\ faults = 0
      /\ \A w \in Workers : local[w].userID = 1 /\ local[w].amount = 60 )
    => /\ {ret[w] : w \in Workers} = {"ok", "insufficient"}
       /\ userCredits[1].Balance = 40

\* C3: no negative balance. (a) no Balance is ever negative; (b) the update
\* of a DeductCredits that goes on to succeed is never made when the amount
\* exceeds the account's current balance; (c) a DeductCredits that fails for
\* insufficient balance leaves the account's counters and the log as they were.
C3_NoNegativeBalance ==
    /\ [](\A u \in UserIDs : userCredits[u].Balance >= 0)
    /\ [][\A w \in Workers :
            (pc[w] = "DeductCredits_update" /\ pc'[w] = "DeductCredits_tx")
                => local[w].amount <= userCredits[local[w].userID].Balance]_vars
    /\ [][\A w \in Workers :
            (ret[w] = "running" /\ ret'[w] = "insufficient")
                => /\ creditTransactions' = creditTransactions
                   /\ \A u \in UserIDs :
                        /\ userCredits'[u].Balance = userCredits[u].Balance
                        /\ userCredits'[u].TotalEarn = userCredits[u].TotalEarn
                        /\ userCredits'[u].TotalSpent = userCredits[u].TotalSpent]_vars

\* C4: serialized mutation. Two AddCredits calls of a and b on the same
\* account, in any interleaving, raise Balance and TotalEarn by exactly a + b.
C4_NoLostUpdate ==
    ( /\ OneCallEach("AddCredits")
      /\ \A w \in Workers : local[w].userID = 1 /\ ret[w] = "ok" )
    => /\ userCredits[1].Balance =
            InitAccount.Balance + local["w1"].amount + local["w2"].amount
       /\ userCredits[1].TotalEarn =
            InitAccount.TotalEarn + local["w1"].amount + local["w2"].amount

\* C5: credit atomicity on storage failure. When the only call made so far
\* is an AddCredits that returned a storage error, the balance change and the
\* transaction are both present or both absent.
C5_CreditAtomicity ==
    \A w \in Workers :
        ( /\ calls = 1
          /\ pc[w] = "idle"
          /\ local[w].op = "AddCredits"
          /\ ret[w] = "storage" )
        => LET u == local[w].userID
               before == IF u = 1 THEN InitAccount.Balance ELSE 0
               logged == IF u = 1 THEN 1 ELSE 0
           IN  \/ /\ userCredits[u].Balance = before
                  /\ Len(TxOf(u)) = logged
               \/ /\ userCredits[u].Balance = before + local[w].amount
                  /\ Len(TxOf(u)) = logged + 1

\* C6: running-balance snapshot. Each transaction's recorded Balance is the
\* sum of the amounts of its account's transactions up to and including it.
\* Stated for the runs without a storage error.
C6_RunningBalance ==
    faults = 0 =>
        \A u \in UserIDs :
            \A i \in 1 .. Len(TxOf(u)) :
                TxOf(u)[i].Balance = SumAmounts(SubSeq(TxOf(u), 1, i))

\* ==================================================== Redemption claims
UsagesOf(code) == SelectSeq(redeemCodeUsages, LAMBDA r : r.RedeemCodeID = code)

RedeemCreditsOf(code) ==
    SelectSeq(creditTransactions, LAMBDA t : t.Source = RedeemReason(code))

\* C7: redeem exhaustion. Whatever the interleaving of RedeemCode calls, a
\* code is redeemed at most max-uses times: it has at most max-uses usage
\* records and at most max-uses credits are granted for it. Stated for the
\* runs without a storage error.
C7_RedeemExhaustion ==
    faults = 0 =>
        \A c \in Codes :
            /\ Len(UsagesOf(c)) <= redeemCodes[c].MaxUses
            /\ Len(RedeemCreditsOf(c)) <= redeemCodes[c].MaxUses

\* C17: used-count bound. For every redeem code (a) UsedCount never exceeds
\* MaxUses, (b) UsedCount never decreases, and (c) the update of a RedeemCode
\* call that goes on to redeem raises the stored UsedCount by exactly 1.
C17_UsedCountBound ==
    /\ [](\A c \in Codes : redeemCodes[c].UsedCount <= redeemCodes[c].MaxUses)
    /\ [][\A c \in Codes :
            redeemCodes'[c].UsedCount >= redeemCodes[c].UsedCount]_vars
    /\ [][\A w \in Workers :
            (pc[w] = "RedeemCode_update" /\ pc'[w] = "RedeemCode_usage")
            => redeemCodes'[local[w].code].UsedCount
                  = redeemCodes[local[w].code].UsedCount + 1]_vars

\* The positions of a RedeemCode call inside its AddCredits step.
InAddCredits(w) ==
    pc[w] \in {"GetUserCredits", "CreateUserCredits_check",
               "CreateUserCredits_create", "AddCredits_update", "AddCredits_tx"}

C19_RedeemErrorKinds ==
    [][\A w \in Workers :
          ( /\ pc[w] = "RedeemCode_get" /\ pc'[w] = "idle"
            /\ faults' = faults )
          => LET row == IF local[w].code \in Codes THEN redeemCodes[local[w].code]
                                                  ELSE NoRedeemCode
             IN  /\ (ret'[w] = "code_not_found") => ~row.exists
                 /\ ( /\ row.exists
                      /\ \/ ~row.Enabled
                         \/ row.hasExpiry /\ now > row.ExpiresAt
                         \/ row.UsedCount = row.MaxUses )
                    => ret'[w] = "code_unusable"
                 /\ UNCHANGED <<redeemCodes, redeemCodeUsages, userCredits>>]_vars

\* ================================================= Payment order claims
PurchaseCreditsOf(orderNo) ==
    SelectSeq(creditTransactions, LAMBDA t : t.SourceID = orderNo)

CompletedOk(w, o) ==
    /\ pc[w] = "idle"
    /\ local[w].op = "CompletePaymentOrder"
    /\ local[w].orderNo = o
    /\ ret[w] = "ok"

\* C8: settlement idempotence, calls made one after the other. (a) An order
\* is credited at most once, and exactly once while a CompletePaymentOrder on
\* it has returned success; (b) a CompletePaymentOrder that finds the order no
\* longer pending returns the invalid-state error (unless the read itself
\* fails) and changes no order, balance or transaction.
C8_SettlementIdempotence ==
    /\ [](\A o \in OrderNos :
            /\ Len(PurchaseCreditsOf(o)) <= 1
            /\ (\E w \in Workers : CompletedOk(w, o))
                  => Len(PurchaseCreditsOf(o)) = 1)
    /\ [][\A w \in Workers :
            ( /\ pc[w] = "CompletePaymentOrder_get"
              /\ pc'[w] # pc[w]
              /\ paymentOrders[local[w].orderNo].exists
              /\ paymentOrders[local[w].orderNo].Status # "pending" )
            => /\ ret'[w] = IF faults' = faults THEN "invalid_state"
                                               ELSE "order_get_failed"
               /\ UNCHANGED <<paymentOrders, userCredits, creditTransactions>>]_vars

\* C8 witness: one CompletePaymentOrder on an order has succeeded and a later
\* one on the same order was refused for the order's state.
C8_Witness ==
    \E w, v \in Workers, o \in OrderNos :
        /\ CompletedOk(w, o)
        /\ pc[v] = "idle"
        /\ local[v].op = "CompletePaymentOrder"
        /\ local[v].orderNo = o
        /\ ret[v] = "invalid_state"
        /\ Len(PurchaseCreditsOf(o)) = 1

\* C9: concurrent settlement. Two CompletePaymentOrder calls on the pending,
\* unexpired order OL1, in any interleaving: exactly one succeeds and the
\* order's account is credited exactly once.
C9_ConcurrentSettlement ==
    ( /\ OneCallEach("CompletePaymentOrder")
      /\ faults = 0
      /\ now <= paymentOrders["OL1"].ExpiresAt
      /\ \A w \in Workers : local[w].orderNo = "OL1" )
    => /\ Cardinality({w \in Workers : ret[w] = "ok"}) = 1
       /\ Len(PurchaseCreditsOf("OL1")) = 1

\* C10: Complete versus Cancel / Sweep. No order is in status cancelled or
\* expired while its account holds the purchase credit for it. Stated for
\* the runs without a storage error.
C10_CompleteVersusCancel ==
    faults = 0 =>
        \A o \in OrderNos :
            paymentOrders[o].Status \in {"cancelled", "expired"}
                => Len(PurchaseCreditsOf(o)) = 0

\* C11: terminal order states. In every interleaving of CreatePaymentOrder,
\* CompletePaymentOrder, CancelPaymentOrder and CleanExpiredPaymentOrders, an
\* order whose status is not pending keeps its status in every step.
C11_TerminalOrderStates ==
    [][\A o \in OrderNos :
          (paymentOrders[o].exists /\ paymentOrders[o].Status # "pending")
              => paymentOrders'[o].Status = paymentOrders[o].Status]_vars

\* C12: forged callbacks never settle. A step of a PaymentNotification whose
\* notification VerifyPayment does not accept changes no order and no account.
C12_ForgedCallbacksNeverSettle ==
    [][\A w \in Workers :
          ( /\ local[w].notification.provider # ""
            /\ pc'[w] # pc[w]
            /\ ~VerifyPayment(local[w].notification) )
          => UNCHANGED <<paymentOrders, userCredits>>]_vars

\* C13: cancel ownership. A CancelPaymentOrder(orderNo, userID) that returned
\* success was made by the account the order belongs to; with any other
\* userID the call fails.
C13_CancelOwnership ==
    \A w \in Workers :
        ( /\ pc[w] = "idle"
          /\ local[w].op = "CancelPaymentOrder"
          /\ ret[w] = "ok" )
        => paymentOrders[local[w].orderNo].UserID = local[w].userID

\* A CompletePaymentOrder call of worker w that was made (at paidAt, the
\* caller's time.Now()) after the expiry time of the order it names.
MadeAfterExpiry(w) ==
    /\ local[w].op = "CompletePaymentOrder"
    /\ pc[w] # "idle"
    /\ paymentOrders[local[w].orderNo].exists
    /\ local[w].paidAt > paymentOrders[local[w].orderNo].ExpiresAt

\* C14: expiry scenario. A CompletePaymentOrder call made after the order's
\* expiry time, with or without a sweep before it and in any interleaving,
\* (a) never gets past its first read, so it writes no order, balance or
\* transaction, and (b) returns the expired or the invalid-state error
\* (unless the read itself fails), changing nothing.
C14_ExpiryScenario ==
    /\ [](\A w \in Workers :
            MadeAfterExpiry(w) => pc[w] = "CompletePaymentOrder_get")
    /\ [][\A w \in Workers :
            (MadeAfterExpiry(w) /\ pc'[w] # pc[w])
            => /\ ret'[w] \in IF faults' = faults
                              THEN {"order_expired", "invalid_state"}
                              ELSE {"order_get_failed"}
               /\ UNCHANGED <<paymentOrders, userCredits, creditTransactions>>]_vars

\* C14 witness: a CompletePaymentOrder made after the expiry time of order
\* OL1, which no sweep has touched, was rejected as expired and the order is
\* not credited.
C14_Witness ==
    \E w \in Workers :
        /\ pc[w] = "idle"
        /\ local[w].op = "CompletePaymentOrder"
        /\ local[w].orderNo = "OL1"
        /\ ret[w] = "order_expired"
        /\ local[w].paidAt > paymentOrders["OL1"].ExpiresAt
        /\ paymentOrders["OL1"].Status = "pending"
        /\ Len(PurchaseCreditsOf("OL1")) = 0

\* ======================================================= Pricing claims
IsPrefix(q, p) == Len(q) <= Len(p) /\ SubSeq(p, 1, Len(q)) = q

\* The rule the claim resolves path p to: the enabled rule with exactly this
\* path; otherwise the enabled, inheritable, folder-type rule with the longest
\* path that is a prefix of p; otherwise none.
ResolvedRule(p) ==
    LET rules == {c \in {fileCreditsConfigs[q] : q \in RulePaths} :
                      c.exists /\ c.Enabled}
        exact == {c \in rules : c.Path = p}
        ancestors == {c \in rules :
                          c.Inheritable /\ c.IsFolder /\ IsPrefix(c.Path, p)}
    IN  IF exact # {} THEN CHOOSE c \in exact : TRUE
        ELSE IF ancestors # {}
        THEN CHOOSE c \in ancestors : \A d \in ancestors : Len(d.Path) <= Len(c.Path)
        ELSE NoConfig

\* C15: pricing longest-prefix resolution. Whenever GetFileCreditsConfig
\* returns without a storage error, it has found a rule exactly when the
\* claim resolves the path to one, that rule is the one it returns, and the
\* credits required for the path are that rule's credits (0 without a rule).
C15_LongestPrefixResolution ==
    [][\A w \in Workers :
          ( /\ pc[w] \in {"GetFileCreditsConfig_exact", "GetFileCreditsConfig_inherit"}
            /\ pc'[w] = "idle"
            /\ ret'[w] \in {"ok", "record_not_found"} )
          => /\ (ret'[w] = "ok") = ResolvedRule(local[w].path).exists
             /\ local'[w].config = ResolvedRule(local[w].path)
             /\ RequiredCredits(ret'[w], local'[w].config)
                    = ResolvedRule(local[w].path).Credits]_vars

\* ================================================== Registration claims
\* C16: registration status monotonicity. In every interleaving of
\* VerifyUserRegistration, ApproveUserRegistration and RejectUserRegistration
\* calls, a registration whose status is registered (2) keeps that status in
\* every step.
C16_RegisteredIsFinal ==
    [][\A r \in RegistrationIDs :
          (userRegistrations[r].exists /\ userRegistrations[r].Status = 2)
              => userRegistrations'[r].Status = 2]_vars

\* C16 witness: a VerifyUserRegistration with the token of the registered
\* registration 2 and a RejectUserRegistration of registration 2 have both
\* returned, and the registration is still registered.
C16_Witness ==
    \E w, v \in Workers :
        /\ pc[w] = "idle" /\ pc[v] = "idle"
        /\ local[w].op = "VerifyUserRegistration"
        /\ local[w].token = userRegistrations[2].Token
        /\ ret[w] = "invalid_link"
        /\ local[v].op = "RejectUserRegistration"
        /\ local[v].registrationID = 2
        /\ ret[v] = "registration_get_failed"
        /\ userRegistrations[2].Status = 2

\* C20: a verification code is consumable once. (a) No two VerifyCode calls
\* have succeeded on the same VerificationCode record, in any interleaving;
\* (b) a VerifyCode never accepts a record at or after its expiry time.
C20_VerificationCodeOnce ==
    /\ [](\A w, v \in Workers :
            ( /\ w # v
              /\ pc[w] = "idle" /\ local[w].op = "VerifyCode" /\ ret[w] = "ok"
              /\ pc[v] = "idle" /\ local[v].op = "VerifyCode" /\ ret[v] = "ok" )
            => local[w].verificationCodeID # local[v].verificationCodeID)
    /\ [][\A w \in Workers :
            (pc[w] = "VerifyCode_get" /\ pc'[w] = "VerifyCode_update")
            => now < local'[w].verificationCode.ExpiresAt]_vars

\* ===================================================== Account claims
\* C21: GetUserCredits is get-or-create. A call that succeeds hands back the
\* user's stored account, which has balance 0 when this call or a concurrent
\* one has just created it; and a call fails only when a storage error has
\* happened, also when several first accesses of one user run at once.
C21_GetOrCreate ==
    \A w \in Workers :
        (pc[w] = "idle" /\ local[w].op = "GetUserCredits") =>
            /\ ret[w] = "ok" =>
                  /\ local[w].credits.exists
                  /\ local[w].credits = userCredits[local[w].userID]
                  /\ local[w].userID = 2 => local[w].credits.Balance = 0
            /\ faults = 0 => ret[w] = "ok"

\* ======================================================= Order claims 2
\* C22: sweep frame. A CleanExpiredPaymentOrders that meets no storage error
\* leaves every order that was pending with ExpiresAt before now in status
\* expired (nothing else of it changed) and every other order as it was, a
\* settled order past its expiry included.
C22_SweepFrame ==
    [][(CleanExpiredPaymentOrders /\ faults' = faults) =>
          \A o \in OrderNos :
              IF /\ paymentOrders[o].exists
                 /\ paymentOrders[o].Status = "pending"
                 /\ paymentOrders[o].ExpiresAt < now
              THEN paymentOrders'[o] =
                      [paymentOrders[o] EXCEPT !.Status = "expired"]
              ELSE paymentOrders'[o] = paymentOrders[o]]_vars

\* C23: successful settlement marks the order paid. (a) While a
\* CompletePaymentOrder on an order has returned success, IsPaid holds of the
\* order and its paid-at time is the one the call was given; (b) the status
\* of every order is one of pending, paid, failed, cancelled, expired.
C23_SettledIsPaid ==
    /\ \A o \in OrderNos :
          (\E w \in Workers : CompletedOk(w, o)) =>
              /\ IsPaid(paymentOrders[o])
              /\ paymentOrders[o].paid
              /\ \E w \in Workers :
                    CompletedOk(w, o) /\ paymentOrders[o].PaidAt = local[w].paidAt
    /\ \A o \in OrderNos :
          paymentOrders[o].exists =>
              paymentOrders[o].Status \in
                  {"pending", "paid", "failed", "cancelled", "expired"}

\* ====================================================== Ledger claims 2
\* C24: transaction provenance. The transaction a successful RedeemCode
\* appends has source redeem and the code as source identifier, the one a
\* successful CompletePaymentOrder appends has source purchase and the order
\* number as source identifier; and the source of every transaction is one
\* of purchase, redeem, download, admin.
C24_TransactionProvenance ==
    /\ [][\A w \in Workers :
            (pc[w] = "AddCredits_tx" /\ ret'[w] = "ok") =>
                LET t == creditTransactions'[Len(creditTransactions')] IN
                    /\ local[w].op = "RedeemCode" =>
                          (t.Source = "redeem" /\ t.SourceID = local[w].code)
                    /\ local[w].op = "CompletePaymentOrder" =>
                          (t.Source = "purchase" /\ t.SourceID = local[w].orderNo)]_vars
    /\ [](\A i \in 1..Len(creditTransactions) :
            creditTransactions[i].Source \in
                {"purchase", "redeem", "download", "admin"})

\* ================================================ Registration claims 2
\* The status changes a registration may make: pending -> verified,
\* verified -> registered, pending -> rejected, verified -> rejected.
StatusEdges == { <<0, 1>>, <<1, 2>>, <<0, -1>>, <<1, -1>> }

C26_ApproveVerified ==
    /\ [][\A w \in Workers :
            ( /\ pc[w] = "ApproveUserRegistration_get"
              /\ pc'[w] # pc[w]
              /\ faults' = faults )
            => /\ userRegistrations[local[w].registrationID].Status = 1
                    => pc'[w] = "ApproveUserRegistration_createUser"
               /\ userRegistrations[local[w].registrationID].Status = 0
                    => /\ pc'[w] = "idle" /\ ret'[w] # "ok"
                       /\ UNCHANGED <<userRegistrations, users, userCredits>>]_vars
    /\ [](\A w \in Workers :
            ( /\ pc[w] = "idle" /\ local[w].op = "ApproveUserRegistration"
              /\ ret[w] = "ok" )
            => /\ userRegistrations[local[w].registrationID].Status = 2
               /\ \E u \in DOMAIN userCredits :
                     /\ u \in DOMAIN users
                     /\ users[u] = userRegistrations[local[w].registrationID].Username
                     /\ userCredits[u].exists
                     /\ userCredits[u].Balance = 0)

\* C27: rejection is available from pending or verified. A
\* RejectUserRegistration that finds the addressed registration pending or
\* verified goes on to write it, and while a RejectUserRegistration has
\* returned success the addressed registration is rejected.
C27_RejectAvailable ==
    /\ [][\A w \in Workers :
            ( /\ pc[w] = "RejectUserRegistration_get"
              /\ pc'[w] # pc[w]
              /\ faults' = faults
              /\ userRegistrations[local[w].registrationID].Status \in {0, 1} )
            => pc'[w] = "RejectUserRegistration_update"]_vars
    /\ [][\A w \in Workers :
            ( /\ pc[w] = "RejectUserRegistration_update"
              /\ ret'[w] = "ok" )
            => userRegistrations'[local[w].registrationID].Status = -1]_vars

\* C28: Approve / Reject act on the addressed record. (a) A step of an
\* ApproveUserRegistration(id) or RejectUserRegistration(id) leaves every
\* registration other than id as it was; (b) the registration the call reads
\* is the one with that id: when it exists, the lookup of the call finds it.
C28_AddressedRecord ==
    /\ [][\A w \in Workers :
            ( /\ local[w].op \in {"ApproveUserRegistration", "RejectUserRegistration"}
              /\ pc[w] # "idle"
              /\ pc'[w] # pc[w] )
            => \A r \in RegistrationIDs \ {local[w].registrationID} :
                  userRegistrations'[r] = userRegistrations[r]]_vars
    /\ [][\A w \in Workers :
            ( /\ pc[w] \in {"ApproveUserRegistration_get", "RejectUserRegistration_get"}
              /\ pc'[w] # pc[w]
              /\ faults' = faults
              /\ userRegistrations[local[w].registrationID].exists )
            => ret'[w] # "registration_get_failed"]_vars

\* A VerifyUserRegistration with token has returned success.
VerifiedOk(token) ==
    \E v \in Workers :
        /\ pc[v] = "idle" /\ local[v].op = "VerifyUserRegistration"
        /\ local[v].token = token /\ ret[v] = "ok"

\* C29: single-use verification token. (a) Once a VerifyUserRegistration
\* with a token has succeeded, the lookup of every later
\* VerifyUserRegistration with that token ends the call with a failure and
\* changes no registration; (b) the lookup of a VerifyUserRegistration made
\* after the ExpiresAt of the pending registration it addresses ends the
\* call with the link-expired failure and leaves the registration pending.
C29_SingleUseToken ==
    /\ [][\A w \in Workers :
            ( /\ pc[w] = "VerifyUserRegistration_get"
              /\ pc'[w] # pc[w]
              /\ VerifiedOk(local[w].token) )
            => /\ pc'[w] = "idle"
               /\ ret'[w] \in {"invalid_link", "registration_get_failed"}
               /\ UNCHANGED userRegistrations]_vars
    /\ [][\A w \in Workers : \A r \in RegistrationIDs :
            ( /\ pc[w] = "VerifyUserRegistration_get"
              /\ pc'[w] # pc[w]
              /\ userRegistrations[r].Token = local[w].token
              /\ userRegistrations[r].Status = 0
              /\ now > userRegistrations[r].ExpiresAt )
            => /\ pc'[w] = "idle"
               /\ ret'[w] \in {"link_expired", "registration_get_failed"}
               /\ userRegistrations'[r].Status = 0]_vars

\* C29 witness: one VerifyUserRegistration with the token of registration 1
\* has succeeded and another with the same token was refused afterwards.
C29_Witness ==
    \E w \in Workers :
        /\ VerifiedOk(userRegistrations[1].Token)
        /\ pc[w] = "idle" /\ local[w].op = "VerifyUserRegistration"
        /\ local[w].token = userRegistrations[1].Token
        /\ ret[w] = "invalid_link"
        /\ userRegistrations[1].Status = 1

\* ====================================================== Pricing claims 2
\* C30: delete removes only the exact rule. A delete of path P that returns
\* success has removed the rule whose path is P and changed no other rule;
\* in particular, without a rule at P no rule is removed. The removed rule is
\* no longer found by the exact lookup or the inheritance lookup.
C30_DeleteExactRule ==
    [][\A w \in Workers :
          ( /\ pc[w] = "DeleteFileCreditsConfig_delete"
            /\ ret'[w] = "ok" )
          => /\ \A q \in RulePaths :
                   fileCreditsConfigs'[q] # fileCreditsConfigs[q]
                       => q = local[w].path
             /\ local[w].path \in RulePaths
             /\ ~fileCreditsConfigs'[local[w].path].exists
             /\ \A a \in AskedPaths :
                   /\ GetFileCreditsConfigByPath(a)' # local[w].config
                   /\ local[w].config \notin GetInheritableCreditsConfig(a)']_vars

\* ====================================================== Download claims
\* The price of a path: the credits of the rule the path resolves to, 0
\* without a rule.
Price(p) == ResolvedRule(p).Credits

\* Worker w takes the step that ends its call.
Ends(w) == pc[w] # "idle" /\ pc'[w] = "idle"

\* C31: process-download debits exactly the price. Stated for calls made one
\* after the other and runs without a storage error. A ProcessFileDownload
\* ends with success or with the insufficient-credits failure; with price > 0
\* its success is the append of one spend transaction of amount -price,
\* source download, source identifier the path, and its debit takes exactly
\* the price from the balance; with price 0 its success changes no balance
\* and no transaction; the failure happens with balance < price and changes
\* neither. A CheckFileDownloadPermission returns the price as required
\* credits and allowed = (price <= 0 or balance >= price).
C31_ProcessDownload ==
    [][\A w \in Workers :
          LET price == Price(local[w].path)
              u == local[w].userID
          IN  /\ (local[w].op = "ProcessFileDownload" /\ faults' = 0) =>
                    /\ Ends(w) => ret'[w] \in {"ok", "insufficient"}
                    /\ (Ends(w) /\ ret'[w] = "ok") =>
                          IF price > 0
                          THEN /\ pc[w] = "DeductCredits_tx"
                               /\ creditTransactions' =
                                     Append(creditTransactions,
                                            CreditTransaction(u, -price, "spend",
                                                "download", PathName(local[w].path),
                                                userCredits[u].Balance))
                          ELSE /\ pc[w] \in {"GetFileCreditsConfig_exact",
                                             "GetFileCreditsConfig_inherit"}
                               /\ UNCHANGED <<userCredits, creditTransactions>>
                    /\ (pc[w] = "DeductCredits_update" /\ pc'[w] # pc[w]) =>
                          userCredits'[u].Balance = userCredits[u].Balance - price
                    /\ (Ends(w) /\ ret'[w] = "insufficient") =>
                          /\ userCredits'[u].Balance < price
                          /\ userCredits'[u].Balance = userCredits[u].Balance
                          /\ UNCHANGED creditTransactions
              /\ ( /\ local[w].op = "CheckFileDownloadPermission" /\ faults' = 0
                   /\ Ends(w) /\ ret'[w] = "ok" ) =>
                    /\ local'[w].required = price
                    /\ local'[w].allowed =
                          (price <= 0 \/ userCredits'[u].Balance >= price)]_vars

\* C32: pricing lookup errors are not free downloads. (a) A
\* CheckFileDownloadPermission that reports a path allowed with 0 required
\* credits, and a ProcessFileDownload that succeeds without a debit, do so
\* only for a path whose price is 0; (b) when a pricing lookup of either
\* fails with a storage error, the call ends with an error.
C32_LookupErrorsNotFree ==
    [][\A w \in Workers :
          ( /\ local[w].op \in DownloadOps
            /\ pc[w] \in {"GetFileCreditsConfig_exact", "GetFileCreditsConfig_inherit"}
            /\ pc'[w] # pc[w] )
          => /\ (pc'[w] = "idle" /\ ret'[w] = "ok") => Price(local[w].path) = 0
             /\ faults' # faults => (pc'[w] = "idle" /\ ret'[w] # "ok")]_vars

\* ==================================================== Redemption claims 2
\* The usage records of code for user u.
UsagesBy(u, code) == SelectSeq(UsagesOf(code), LAMBDA r : r.UserID = u)

\* C33: repeat redemption by one account. Stated for calls made one after
\* the other. The lookup of a RedeemCode by a user who has redeemed the code
\* before lets the call go on whenever the code is enabled, unexpired and
\* used fewer than max-uses times, and a call that has gone on ends with
\* success unless a storage error has happened.
C33_RepeatRedemption ==
    [][\A w \in Workers :
          LET rc == redeemCodes[local[w].code] IN
          /\ ( /\ pc[w] = "RedeemCode_get"
               /\ pc'[w] # pc[w]
               /\ faults' = faults
               /\ Len(UsagesBy(local[w].userID, local[w].code)) > 0
               /\ rc.exists /\ rc.Enabled
               /\ ~(rc.hasExpiry /\ now > rc.ExpiresAt)
               /\ rc.UsedCount < rc.MaxUses )
             => pc'[w] = "RedeemCode_update"
          /\ ( /\ local[w].op = "RedeemCode"
               /\ pc[w] # "RedeemCode_get"
               /\ Ends(w)
               /\ faults' = 0 )
             => ret'[w] = "ok"]_vars

\* C33 witness: user 1 has redeemed code OLB twice, each time with success.
C33_Witness ==
    /\ Len(UsagesBy(1, "OLB")) = 2
    /\ Len(RedeemCreditsOf("OLB")) = 2
    /\ redeemCodes["OLB"].UsedCount = 2
    /\ faults = 0
    /\ \E w \in Workers :
          /\ pc[w] = "idle" /\ local[w].op = "RedeemCode" /\ ret[w] = "ok"
          /\ local[w].userID = 1 /\ local[w].code = "OLB"

\* ======================================================= Order claims 3
\* C34: every order is eventually terminal. With time advancing and
\* CleanExpiredPaymentOrders called again and again, an order that is pending
\* is eventually in a status other than pending.
C34_EventuallyTerminal ==
    \A o \in OrderNos :
        (paymentOrders[o].exists /\ paymentOrders[o].Status = "pending")
            ~> (paymentOrders[o].Status # "pending")

\* C35: settled iff credited. Whenever no call is in flight, a storage error
\* between the steps of CompletePaymentOrder or not, an order that was settled
\* has exactly one transaction for its order number, on its account, and an
\* order that is pending, cancelled or expired has none.
C35_SettledIffCredited ==
    Quiescent =>
        \A o \in OrderNos :
            paymentOrders[o].exists =>
                /\ paymentOrders[o].Status = "completed" =>
                      /\ Len(PurchaseCreditsOf(o)) = 1
                      /\ PurchaseCreditsOf(o)[1].UserID = paymentOrders[o].UserID
                /\ paymentOrders[o].Status \in {"pending", "cancelled", "expired"} =>
                      Len(PurchaseCreditsOf(o)) = 0

\* ================================================== Redemption claims 2
\* C36: usage records match the used-count. Whenever no call is in flight, a
\* storage error between the steps of RedeemCode or not, every code has as
\* many usage records as its UsedCount says, and as many redeem credits have
\* been written for it.
C36_UsagesMatchUsedCount ==
    Quiescent =>
        \A c \in Codes :
            /\ Len(UsagesOf(c)) = redeemCodes[c].UsedCount
            /\ Len(RedeemCreditsOf(c)) = redeemCodes[c].UsedCount

\* ======================================================= Order claims 4
\* The step in which PaymentNotification answers with the provider's success
\* acknowledgement: at once, or when its CompletePaymentOrder returns no error.
AnswersSuccess(w) ==
    /\ ret'[w] = "ok"
    /\ \/ PaymentNotification(w)
       \/ Ends(w)

\* C37: acknowledged means settled. When PaymentNotification answers with the
\* success acknowledgement, the notification named an order and that order is
\* completed; a notification that yields no order number is not acknowledged.
C37_AcknowledgedMeansSettled ==
    [][\A w \in Workers :
          AnswersSuccess(w) =>
              /\ local'[w].orderNo \in OrderNos
              /\ paymentOrders'[local'[w].orderNo].exists
              /\ paymentOrders'[local'[w].orderNo].Status = "completed"]_vars
====
